---- MODULE Spec2Model ----
(***************************************************************************)
(* Dependency-graph traversal of the Jira MCP server: the traverse closure *)
(* of jira_issue_relationships and jira_dependency_analysis, the blocker   *)
(* pass that follows it, and the backing store they read.                  *)
(***************************************************************************)
EXTENDS Integers, Sequences, FiniteSets, TLC

(* ------------------------------ bounds -------------------------------- *)

\* links per record in the backing stores that are explored
MaxLinks == 2
\* largest input.depth explored (the schema allows DepthMin..DepthMax)
MaxDepth == 3
\* longest `fields` array a caller passes to getIssue
MaxFields == 2

(* ------------------------- program constants -------------------------- *)

DepthMin == 1
DepthMax == 10

Keys == {"A", "B", "C", "E"}
CoreKeys == {"A", "B", "C"}
KeyOrd == [k \in Keys |-> CASE k = "A" -> 1 [] k = "B" -> 2 [] k = "C" -> 3 [] OTHER -> 4]
\* an absent issue key (link.outwardIssue / link.inwardIssue undefined)
NoKey == "none"
\* the tool invocations of one server process, in the order they are made
Invs == {1, 2}
FailKinds == {"notfound", "auth"}

VARIABLES
    links,          \* backing store: key -> sequence of raw issuelinks
    outcome,        \* backing store: key -> result of getIssue(key, link fields)
    mainOutcome,    \* backing store: key -> result of an analysis' first getIssue(key)
    clOutcome,      \* backing store: key -> result of getIssueChangelog(key)
    input,          \* invocation -> [issueKey, depth]
    tool,           \* invocation -> tool name
    pc,             \* invocation -> position of the handler
    nodes,          \* invocation -> Map of nodes, as its keys in insertion order
    edges,          \* invocation -> edges array
    visited,        \* invocation -> visited set
    visiting,       \* invocation -> visiting set
    circularDeps,   \* invocation -> circularDeps array
    stack,          \* invocation -> active traverse() calls, innermost last
    blockers,       \* invocation -> blockers array (keys)
    bidx,           \* invocation -> position in blockerKeys
    fetchCount,     \* history: invocation -> key -> getIssue calls made by traverse
    insertCount,    \* history: invocation -> key -> nodes.set calls
    backEdges,      \* history: invocation -> keys that were a link target while in visiting
    cop,            \* client: the JiraClient method in progress and its fields argument
    cpc,            \* client: position of the method
    endpoint,       \* client: index of the search endpoint being tried (0 outside searchIssues)
    attempt,        \* client: request()'s attempt counter
    lastErr,        \* client: request()'s lastErr
    qpFields,       \* client: the fields query parameter the method sends
    http,           \* client history: the HTTP exchanges of the method, oldest first
    result,         \* client: what the method returned or threw
    simInput,       \* similar tickets: the source ticket and the tool input
    spc,            \* similar tickets: position of the handler
    searches,       \* similar tickets: the searches array
    sidx,           \* similar tickets: position in searches
    similarTicketsMap, \* similar tickets: candidate key -> [confidenceScore, matchReason]
    strategiesUsed, \* similar tickets: strategiesUsed array
    matched,        \* similar tickets history: candidate key -> weights that matched it, in order
    sortedTickets,  \* similar tickets: sortedTickets
    ticket,         \* auto-discover: the root ticket of the analysis
    autoDiscover,   \* auto-discover: input.autoDiscover
    dpc,            \* auto-discover: position in step 5b of the handler
    kwAt,           \* auto-discover: the keyword whose search is awaited, 0 if none is
    discovered,     \* auto-discover: similarTicketsResults and confluenceResults
    contextDiscovery, \* auto-discover: the contextDiscovery local
    plain,          \* ADF helpers: the argument of toADF
    adf,            \* ADF helpers: the document toADF returned
    text,           \* ADF helpers: the string adfToPlainText returned
    apc,            \* ADF helpers: position of the round trip
    doc,            \* confluence links: the adf argument of extractConfluenceLinks
    extracted,      \* confluence links: what extractConfluenceLinks returned, or that it threw
    issue,          \* confluence links: fields.description and fields.comment.comments of the issue
    allLinks,       \* confluence links: allLinks of the jira_issue_confluence_links handler
    seenUrls,       \* confluence links: the handler's seen set
    cidx,           \* confluence links: position in the comments loop
    xpc,            \* confluence links: position of the function or of the handler
    commentEnv,     \* comment window: process.env.DEPENDENCY_ANALYSIS_COMMENT_LIMIT
    rawComments,    \* comment window: fields.comment.comments of the root and of a linked issue
    recordComments, \* comment window: the comments of the records built from them
    kpc,            \* comment window: position of the analysis
    registered,     \* server: the names registerTools registered, in order
    invoked,        \* server history: the tool names requested so far
    clientCalls,    \* server history: the JiraClient methods the handlers have called
    running,        \* server: per request, the await of a client call its handler is at
    holds,          \* server: per request, the places whose results its handler keeps and
                    \* that are of a shape the handler does not expect
    toolResult      \* server: per request, its outcome so far

store == <<links, outcome, mainOutcome, clOutcome>>
graph == <<nodes, edges, visited, visiting, circularDeps>>
hist == <<fetchCount, insertCount, backEdges>>
traversalVars == <<links, outcome, mainOutcome, clOutcome, input, tool, pc, nodes, edges,
                   visited, visiting, circularDeps, stack, blockers, bidx,
                   fetchCount, insertCount, backEdges>>
clientVars == <<cop, cpc, endpoint, attempt, lastErr, qpFields, http, result>>
scoreVars == <<simInput, spc, searches, sidx, similarTicketsMap, strategiesUsed, matched,
               sortedTickets>>
discoverVars == <<ticket, autoDiscover, dpc, kwAt, discovered, contextDiscovery>>
adfVars == <<plain, adf, text, apc>>
extractVars == <<doc, extracted, issue, allLinks, seenUrls, cidx, xpc>>
commentVars == <<commentEnv, rawComments, recordComments, kpc>>
serverVars == <<registered, invoked, clientCalls, running, holds, toolResult>>
others == <<adfVars, extractVars, commentVars, serverVars>>
\* what the traversal and the blocker pass leave alone
aside == <<clientVars, scoreVars, discoverVars, others>>
vars == <<traversalVars, clientVars, scoreVars, discoverVars, others>>

(* --------------------------- backing stores --------------------------- *)

LinkSeqs(T) == UNION {[1..n -> T] : n \in 0..MaxLinks}

RECURSIVE SumLen(_, _)
SumLen(g, ks) ==
    IF ks = {} THEN 0
    ELSE LET k == CHOOSE x \in ks : TRUE IN Len(g[k]) + SumLen(g, ks \ {k})

\* the stores explored hold at most as many links as records
MaxTotalLinks(ks) == Cardinality(ks)

\* arbitrary stores over CoreKeys: cycles, self links, links without a target
CoreTargets ==
    {g \in [CoreKeys -> LinkSeqs(CoreKeys \cup {NoKey})] :
        SumLen(g, CoreKeys) <= MaxTotalLinks(CoreKeys)}

Higher(k) == {t \in Keys : KeyOrd[t] > KeyOrd[k]}

\* acyclic stores over Keys: every link points to a later key
ForwardTargets ==
    {g \in {[k \in Keys |-> CASE k = "A" -> a [] k = "B" -> b [] k = "C" -> c [] OTHER -> <<>>] :
                a \in LinkSeqs(Higher("A")),
                b \in LinkSeqs(Higher("B")),
                c \in LinkSeqs(Higher("C"))} :
        SumLen(g, Keys) <= MaxTotalLinks(Keys)}

TargetGraphs ==
    {[k \in Keys |-> IF k \in CoreKeys THEN g[k] ELSE <<>>] : g \in CoreTargets}
        \cup ForwardTargets

\* the link type of the Jira link between two records: links that touch C
\* carry no type names, every other link is of a blocking type, spelt with
\* capitals on the links that touch E
LinkTypeOf(a, b) ==
    IF "C" \in {a, b}
    THEN [inward |-> "", outward |-> ""]
    ELSE IF "E" \in {a, b}
    THEN [inward |-> "Is Blocked By", outward |-> "Blocks"]
    ELSE [inward |-> "is blocked by", outward |-> "blocks"]

\* the raw issuelink a record carries for its link to `to`: of the two ends of
\* a Jira link, the later key is the outward end
MkLink(from, to) ==
    [type |-> LinkTypeOf(from, to),
     outwardIssue |-> IF to # NoKey /\ KeyOrd[from] >= KeyOrd[to] THEN to ELSE NoKey,
     inwardIssue |-> IF to # NoKey /\ KeyOrd[from] < KeyOrd[to] THEN to ELSE NoKey]

(* ----------------------- traverse: pure helpers ----------------------- *)

TargetKeyOutwardOnly(link) ==
    IF link.outwardIssue # NoKey THEN link.outwardIssue ELSE NoKey

\* part_003:559-567
TargetKey(link) ==
    IF link.outwardIssue # NoKey THEN link.outwardIssue
    ELSE IF link.inwardIssue # NoKey THEN link.inwardIssue
    ELSE NoKey

\* part_003:563,566: link.type?.outward || "relates to"
LinkType(link) ==
    IF link.outwardIssue # NoKey
    THEN (IF link.type.outward # "" THEN link.type.outward ELSE "relates to")
    ELSE IF link.inwardIssue # NoKey
    THEN (IF link.type.inward # "" THEN link.type.inward ELSE "relates to")
    ELSE ""

\* part_003:510
Marker(k) == k \o " (circular dependency detected)"

Range(s) == {s[j] : j \in 1..Len(s)}

Top(i) == stack[i][Len(stack[i])]

PrunedByDepthOnly(i, k, d) == d > input[i].depth

\* part_003:508
Pruned(i, k, d) == d > input[i].depth \/ k \in visited[i]

\* part_003:509
OnPath(i, k) == k \in visiting[i]

RecurseAlways(i, d) == TRUE

\* part_003:570
Recurse(i, d) == d < input[i].depth

NextLinkStuck(j) == j

\* part_003:558: the for-of loop moves to the next issuelink
NextLink(j) == j + 1

CaughtUnlessNotFound(o) == o # "notfound"

\* part_003:575: catch (err) {} takes every error, whatever its kind
Caught(o) == TRUE

\* String.prototype.toLowerCase over the labels of the stores and the words of
\* the ticket texts
ToLowerCase(type) ==
    CASE type = "Blocks" -> "blocks"
      [] type = "Is Blocked By" -> "is blocked by"
      [] type = "API" -> "api"
      [] type = "SDK" -> "sdk"
      [] type = "Queue" -> "queue"
      [] type = "INFRASTRUCTURE" -> "infrastructure"
      [] OTHER -> type

\* part_003:591: e.type.toLowerCase().includes("block")
IsBlocking(type) == ToLowerCase(type) \in {"blocks", "is blocked by"}

\* no store of the family has more links than this
MaxEdges == Cardinality(Keys) * MaxLinks

Frame(k, d) == [key |-> k, depth |-> d, phase |-> "enter", idx |-> 0]

\* a traverse() call returns: its caller's loop goes on with the next link
Pop(stk) ==
    LET rest == SubSeq(stk, 1, Len(stk) - 1)
    IN  IF rest = <<>> THEN rest
        ELSE [rest EXCEPT ![Len(rest)].idx = NextLink(@)]

SetTop(stk, f) == [stk EXCEPT ![Len(stk)] = f]

Advance(stk) == [stk EXCEPT ![Len(stk)].idx = NextLink(@)]

\* a visiting set that the invocations share
LeakedVisiting == UNION {visiting[j] : j \in Invs}

\* a visited set that outlives the invocation
LeakedVisited == UNION {visited[j] : j \in Invs}

\* part_003:501-505 (and 112-116): the working state of one invocation
NewNodes == <<>>
NewEdges == <<>>
NewVisited == {}
NewVisiting == {}
NewCircularDeps == <<>>

\* part_003:500-505,580: depGraph closure entered, traverse(input.issueKey, 1) called
StartTraversal(i) ==
    /\ nodes' = [nodes EXCEPT ![i] = NewNodes]
    /\ edges' = [edges EXCEPT ![i] = NewEdges]
    /\ visited' = [visited EXCEPT ![i] = NewVisited]
    /\ visiting' = [visiting EXCEPT ![i] = NewVisiting]
    /\ circularDeps' = [circularDeps EXCEPT ![i] = NewCircularDeps]
    /\ stack' = [stack EXCEPT ![i] = <<Frame(input[i].issueKey, 1)>>]
    /\ pc' = [pc EXCEPT ![i] = "traverse"]

(* ------------------------------ Init ---------------------------------- *)

Inputs == [issueKey : {"A"}, depth : DepthMin..(IF MaxDepth < DepthMax THEN MaxDepth ELSE DepthMax)]

TraversalInit ==
    /\ \E g \in TargetGraphs :
          links = [k \in Keys |-> [j \in 1..Len(g[k]) |-> MkLink(k, g[k][j])]]
    /\ outcome = [k \in Keys |-> "unknown"]
    /\ mainOutcome = [k \in Keys |-> "unknown"]
    /\ clOutcome = [k \in Keys |-> "unknown"]
    /\ \E in \in Inputs : input = [i \in Invs |-> in]
    /\ tool = [i \in Invs |-> "none"]
    /\ pc = [i \in Invs |-> "idle"]
    /\ nodes = [i \in Invs |-> <<>>]
    /\ edges = [i \in Invs |-> <<>>]
    /\ visited = [i \in Invs |-> {}]
    /\ visiting = [i \in Invs |-> {}]
    /\ circularDeps = [i \in Invs |-> <<>>]
    /\ stack = [i \in Invs |-> <<>>]
    /\ blockers = [i \in Invs |-> <<>>]
    /\ bidx = [i \in Invs |-> 0]
    /\ fetchCount = [i \in Invs |-> [k \in Keys |-> 0]]
    /\ insertCount = [i \in Invs |-> [k \in Keys |-> 0]]
    /\ backEdges = [i \in Invs |-> {}]

(* ----------------------------- handlers ------------------------------- *)

\* part_003:110-116,211: jira_issue_relationships handler up to its first fetch
InvokeRelationships(i) ==
    /\ pc[i] = "idle"
    /\ tool' = [tool EXCEPT ![i] = "jira_issue_relationships"]
    /\ StartTraversal(i)
    /\ UNCHANGED <<store, input, aside, blockers, bidx, hist>>

\* part_003:455-460: jira_dependency_analysis handler up to its first fetch
InvokeAnalysis(i) ==
    /\ pc[i] = "idle"
    /\ tool' = [tool EXCEPT ![i] = "jira_dependency_analysis"]
    /\ pc' = [pc EXCEPT ![i] = "main"]
    /\ UNCHANGED <<store, input, aside, graph, stack, blockers, bidx, hist>>

\* part_003:460-505,580: the main issue arrives, the traversal starts
MainFetchOk(i) ==
    /\ pc[i] = "main"
    /\ mainOutcome[input[i].issueKey] \in {"unknown", "ok"}
    /\ mainOutcome' = [mainOutcome EXCEPT ![input[i].issueKey] = "ok"]
    /\ StartTraversal(i)
    /\ UNCHANGED <<links, outcome, clOutcome, input, aside, tool, blockers, bidx, hist>>

\* part_003:460: getIssue rejects, nothing in the handler catches it
MainFetchFail(i) ==
    /\ pc[i] = "main"
    /\ \E o \in FailKinds :
          /\ mainOutcome[input[i].issueKey] \in {"unknown", o}
          /\ mainOutcome' = [mainOutcome EXCEPT ![input[i].issueKey] = o]
    /\ pc' = [pc EXCEPT ![i] = "failed"]
    /\ UNCHANGED <<links, outcome, clOutcome, input, aside, tool, graph, stack, blockers, bidx, hist>>

InCall(i, ph) ==
    /\ pc[i] = "traverse"
    /\ stack[i] # <<>>
    /\ Top(i).phase = ph

\* part_003:508: early return of traverse
Prune(i) ==
    /\ InCall(i, "enter")
    /\ Pruned(i, Top(i).key, Top(i).depth)
    /\ stack' = [stack EXCEPT ![i] = Pop(@)]
    /\ UNCHANGED <<store, input, aside, tool, pc, graph, blockers, bidx, hist>>

\* part_003:509-513: the key is on the active path
CycleDetected(i) ==
    /\ InCall(i, "enter")
    /\ ~Pruned(i, Top(i).key, Top(i).depth)
    /\ OnPath(i, Top(i).key)
    /\ circularDeps' = [circularDeps EXCEPT ![i] =
          IF Marker(Top(i).key) \in Range(@) THEN @ ELSE Append(@, Marker(Top(i).key))]
    /\ stack' = [stack EXCEPT ![i] = Pop(@)]
    /\ UNCHANGED <<store, input, aside, tool, pc, nodes, edges, visited, visiting, blockers, bidx, hist>>

\* part_003:515-517: visiting.add, getIssue called
Expand(i) ==
    /\ InCall(i, "enter")
    /\ ~Pruned(i, Top(i).key, Top(i).depth)
    /\ ~OnPath(i, Top(i).key)
    /\ visiting' = [visiting EXCEPT ![i] = @ \cup {Top(i).key}]
    /\ fetchCount' = [fetchCount EXCEPT ![i][Top(i).key] = @ + 1]
    /\ stack' = [stack EXCEPT ![i] = SetTop(@, [Top(i) EXCEPT !.phase = "fetch"])]
    /\ UNCHANGED <<store, input, aside, tool, pc, nodes, edges, visited, circularDeps, blockers, bidx,
                   insertCount, backEdges>>

\* part_003:517-557: the record arrives and is inserted
FetchOk(i) ==
    /\ InCall(i, "fetch")
    /\ LET k == Top(i).key IN
          /\ outcome[k] \in {"unknown", "ok"}
          /\ outcome' = [outcome EXCEPT ![k] = "ok"]
          /\ IF k \in Range(nodes[i])
             THEN UNCHANGED <<nodes, insertCount>>
             ELSE /\ nodes' = [nodes EXCEPT ![i] = Append(@, k)]
                  /\ insertCount' = [insertCount EXCEPT ![i][k] = @ + 1]
    /\ stack' = [stack EXCEPT ![i] = SetTop(@, [Top(i) EXCEPT !.phase = "links", !.idx = 1])]
    /\ UNCHANGED <<links, mainOutcome, clOutcome, input, aside, tool, pc, edges, visited, visiting,
                   circularDeps, blockers, bidx, fetchCount, backEdges>>

\* part_003:517,575-577: getIssue rejects
FetchFail(i) ==
    /\ InCall(i, "fetch")
    /\ LET k == Top(i).key IN
       \E o \in FailKinds :
          /\ outcome[k] \in {"unknown", o}
          /\ outcome' = [outcome EXCEPT ![k] = o]
          /\ IF Caught(o)
             THEN /\ visiting' = [visiting EXCEPT ![i] = @ \ {k}]
                  /\ visited' = [visited EXCEPT ![i] = @ \cup {k}]
                  /\ stack' = [stack EXCEPT ![i] = Pop(@)]
                  /\ UNCHANGED pc
             ELSE /\ pc' = [pc EXCEPT ![i] = "failed"]
                  /\ stack' = [stack EXCEPT ![i] = <<>>]
                  /\ UNCHANGED <<visiting, visited>>
    /\ UNCHANGED <<links, mainOutcome, clOutcome, input, aside, tool, nodes, edges, circularDeps,
                   blockers, bidx, hist>>

AtLink(i) ==
    /\ InCall(i, "links")
    /\ Top(i).idx <= Len(links[Top(i).key])

CurLink(i) == links[Top(i).key][Top(i).idx]

\* part_003:568: a link without targetKey or linkType is passed over
LinkNoTarget(i) ==
    /\ AtLink(i)
    /\ TargetKey(CurLink(i)) = NoKey \/ LinkType(CurLink(i)) = ""
    /\ stack' = [stack EXCEPT ![i] = Advance(@)]
    /\ UNCHANGED <<store, input, aside, tool, pc, graph, blockers, bidx, hist>>

PushEdge(i) ==
    /\ Len(edges[i]) < MaxEdges
    /\ edges' = [edges EXCEPT ![i] =
          Append(@, [from |-> Top(i).key, to |-> TargetKey(CurLink(i)), type |-> LinkType(CurLink(i))])]
    /\ backEdges' = [backEdges EXCEPT ![i] =
          IF TargetKey(CurLink(i)) \in visiting[i] THEN @ \cup {TargetKey(CurLink(i))} ELSE @]

\* part_003:568-570: edge pushed, the target is not traversed
LinkEdgeOnly(i) ==
    /\ AtLink(i)
    /\ TargetKey(CurLink(i)) # NoKey /\ LinkType(CurLink(i)) # ""
    /\ ~Recurse(i, Top(i).depth)
    /\ PushEdge(i)
    /\ stack' = [stack EXCEPT ![i] = Advance(@)]
    /\ UNCHANGED <<store, input, aside, tool, pc, nodes, visited, visiting, circularDeps, blockers, bidx,
                   fetchCount, insertCount>>

\* part_003:568-571: edge pushed, traverse(targetKey, currentDepth + 1) called
LinkRecurse(i) ==
    /\ AtLink(i)
    /\ TargetKey(CurLink(i)) # NoKey /\ LinkType(CurLink(i)) # ""
    /\ Recurse(i, Top(i).depth)
    /\ PushEdge(i)
    /\ stack' = [stack EXCEPT ![i] = Append(@, Frame(TargetKey(CurLink(i)), Top(i).depth + 1))]
    /\ UNCHANGED <<store, input, aside, tool, pc, nodes, visited, visiting, circularDeps, blockers, bidx,
                   fetchCount, insertCount>>

\* part_003:574-578: the loop is over
Finish(i) ==
    /\ InCall(i, "links")
    /\ Top(i).idx > Len(links[Top(i).key])
    /\ visiting' = [visiting EXCEPT ![i] = @ \ {Top(i).key}]
    /\ visited' = [visited EXCEPT ![i] = @ \cup {Top(i).key}]
    /\ stack' = [stack EXCEPT ![i] = Pop(@)]
    /\ UNCHANGED <<store, input, aside, tool, pc, nodes, edges, circularDeps, blockers, bidx, hist>>

\* part_003:580-592 (and 211-218): the top-level traverse call has returned
TraverseReturn(i) ==
    /\ pc[i] = "traverse"
    /\ stack[i] = <<>>
    /\ pc' = [pc EXCEPT ![i] =
          IF tool[i] = "jira_dependency_analysis" THEN "blockers" ELSE "done"]
    /\ bidx' = [bidx EXCEPT ![i] = 1]
    /\ UNCHANGED <<store, input, aside, tool, graph, stack, blockers, hist>>

\* part_003:590-592
BlockerKeys(i) ==
    LET be == SelectSeq(edges[i], LAMBDA e : IsBlocking(e.type))
    IN  [j \in 1..Len(be) |-> be[j].to]

AtBlocker(i) ==
    /\ pc[i] = "blockers"
    /\ bidx[i] <= Len(BlockerKeys(i))

\* part_003:595-596: the blocker key has no node
BlockerSkip(i) ==
    /\ AtBlocker(i)
    /\ BlockerKeys(i)[bidx[i]] \notin Range(nodes[i])
    /\ bidx' = [bidx EXCEPT ![i] = @ + 1]
    /\ UNCHANGED <<store, input, aside, tool, pc, graph, stack, blockers, hist>>

\* part_003:595-611: the changelog arrives, the blocker is pushed
BlockerOk(i) ==
    /\ AtBlocker(i)
    /\ LET k == BlockerKeys(i)[bidx[i]] IN
          /\ k \in Range(nodes[i])
          /\ clOutcome[k] \in {"unknown", "ok"}
          /\ clOutcome' = [clOutcome EXCEPT ![k] = "ok"]
          /\ blockers' = [blockers EXCEPT ![i] = Append(@, k)]
    /\ bidx' = [bidx EXCEPT ![i] = @ + 1]
    /\ UNCHANGED <<links, outcome, mainOutcome, input, aside, tool, pc, graph, stack, hist>>

\* part_003:598,612: getIssueChangelog rejects, the blocker is dropped
BlockerFail(i) ==
    /\ AtBlocker(i)
    /\ LET k == BlockerKeys(i)[bidx[i]] IN
          /\ k \in Range(nodes[i])
          /\ clOutcome[k] \in {"unknown", "failed"}
          /\ clOutcome' = [clOutcome EXCEPT ![k] = "failed"]
    /\ bidx' = [bidx EXCEPT ![i] = @ + 1]
    /\ UNCHANGED <<links, outcome, mainOutcome, input, aside, tool, pc, graph, stack, blockers, hist>>

\* part_003:614-: the blocker loop is over, the result is returned
FinishAnalysis(i) ==
    /\ pc[i] = "blockers"
    /\ bidx[i] > Len(BlockerKeys(i))
    /\ pc' = [pc EXCEPT ![i] = "done"]
    /\ UNCHANGED <<store, input, aside, tool, graph, stack, blockers, bidx, hist>>

\* Math.max(...values): -Infinity is not among the values it is given here
RECURSIVE MathMax(_)
MathMax(values) ==
    IF Len(values) = 1 THEN values[1]
    ELSE LET m == MathMax(SubSeq(values, 1, Len(values) - 1))
         IN  IF values[Len(values)] > m THEN values[Len(values)] ELSE m

\* part_003:651-656: insights.blocking_chain_length
blocking_chain_length(i) ==
    LET fromRoot == SelectSeq(edges[i], LAMBDA e : e.from = input[i].issueKey)
    IN  MathMax([j \in 1..Len(fromRoot) |-> 1] \o <<0>>)

\* part_003:650: insights.total_dependencies
total_dependencies(i) == Len(nodes[i]) - 1

\* a later invocation repeats a jira_issue_relationships call that has returned
InOrder(i, t) ==
    i > 1 => (pc[i - 1] = "done" /\ tool[i - 1] = t /\ t = "jira_issue_relationships")

Step(i) ==
    \/ MainFetchOk(i) \/ MainFetchFail(i)
    \/ Prune(i) \/ CycleDetected(i) \/ Expand(i)
    \/ FetchOk(i) \/ FetchFail(i)
    \/ LinkNoTarget(i) \/ LinkEdgeOnly(i) \/ LinkRecurse(i)
    \/ Finish(i) \/ TraverseReturn(i)
    \/ BlockerSkip(i) \/ BlockerOk(i) \/ BlockerFail(i) \/ FinishAnalysis(i)

NextOf(S) ==
    \E i \in S :
        \/ InOrder(i, "jira_issue_relationships") /\ InvokeRelationships(i)
        \/ InOrder(i, "jira_dependency_analysis") /\ InvokeAnalysis(i)
        \/ Step(i)

(* ----------------------------- JiraClient ----------------------------- *)

\* client.ts:6-17
MIN_FIELDS ==
    <<"summary", "status", "assignee", "reporter", "priority",
      "labels", "project", "issuetype", "created", "updated">>

\* a `fields` argument: undefined, a string (its characters) or an array of names
Undefined == [type |-> "undefined", items |-> <<>>]
Str(chars) == [type |-> "string", items |-> chars]
Arr(names) == [type |-> "array", items |-> names]
\* the string literals "summary" and "all"
SummaryLiteral == Str(<<"s", "u", "m", "m", "a", "r", "y">>)
AllLiteral == Str(<<"a", "l", "l">>)

\* a ?? b
Nullish(a, b) == IF a.type = "undefined" THEN b ELSE a

\* new Set(items), read back with Array.from: first occurrences, in order
RECURSIVE ArrayFromSet(_)
ArrayFromSet(items) ==
    IF items = <<>> THEN <<>>
    ELSE LET front == ArrayFromSet(SubSeq(items, 1, Len(items) - 1))
             last == items[Len(items)]
         IN  IF \E j \in 1..Len(front) : front[j] = last THEN front ELSE Append(front, last)

\* Array.prototype.join(",")
RECURSIVE Join(_)
Join(items) ==
    IF items = <<>> THEN ""
    ELSE IF Len(items) = 1 THEN items[1]
    ELSE Join(SubSeq(items, 1, Len(items) - 1)) \o "," \o items[Len(items)]

\* client.ts:97: [...MIN_FIELDS, ...fields] spreads whatever is iterable,
\* an array by its elements and a string by its characters
Spread(fields) == MIN_FIELDS \o fields.items

\* client.ts:93-99
fieldsParam(fields) ==
    IF fields.type = "undefined" \/ (fields.type = "string" /\ fields.items = <<>>)
    THEN Join(MIN_FIELDS)
    ELSE IF fields = AllLiteral THEN "*all"
    ELSE Join(ArrayFromSet(Spread(fields)))

\* client.ts:116,130,152: this.fieldsParam(fields ?? "summary")
QueryFields(fields) == fieldsParam(Nullish(fields, SummaryLiteral))

\* field names a caller may ask for, one of them already in MIN_FIELDS
FieldNames == {"description", "issuelinks", "labels"}

\* what the tools pass to getIssue: input.fields (absent, a literal or an
\* array), or a fixed array
FieldArgs ==
    {Undefined, SummaryLiteral, AllLiteral}
        \cup {Arr(a) : a \in UNION {[1..n -> FieldNames] : n \in 0..MaxFields}}

\* part_003:63,1297: what the tools pass to searchIssues
SearchFieldArgs == {Undefined, Arr(<<"summary", "status", "labels", "components">>)}

\* an HTTP response; status 0 stands for a fetch() that rejects
Res(status, body) == [status |-> status, body |-> body]
NetworkError == Res(0, "")

\* the servers explored: 200 with an `issues` list, 200 with another JSON
\* document, 200 whose JSON body does not parse, 204, the error statuses
AllResponses ==
    {Res(200, "issues"), Res(200, "other"), Res(200, "malformed"), Res(204, ""),
     Res(401, ""), Res(403, ""), Res(404, ""), Res(429, ""), Res(500, ""), Res(503, ""),
     NetworkError}

\* the answers explored on each search endpoint
SearchResponses ==
    {Res(200, "issues"), Res(200, "other"), Res(401, ""), Res(503, "")}

\* client.ts:63: res.ok
Ok(res) == res.status >= 200 /\ res.status < 300

\* client.ts:70
Retryable(res) == res.status = 429 \/ (res.status >= 500 /\ res.status < 600)

\* client.ts:58
maxAttempts == 3

NoErr == [msg |-> "undefined", status |-> 0]
Err(msg, status) == [msg |-> msg, status |-> status]

\* outcomes of one pass through the loop body of request()
Return(v) == [kind |-> "return", value |-> v, err |-> NoErr, attempt |-> 0, lastErr |-> NoErr]
Throw(e) == [kind |-> "throw", value |-> "", err |-> e, attempt |-> 0, lastErr |-> NoErr]
AgainFromZero(a, le) ==
    [kind |-> "again", value |-> "", err |-> NoErr, attempt |-> 0, lastErr |-> le]

Again(a, le) == [kind |-> "again", value |-> "", err |-> NoErr, attempt |-> a, lastErr |-> le]

\* client.ts:81-88: catch (err) of request()
Catch(e, a) == IF a + 1 >= maxAttempts THEN Throw(e) ELSE Again(a + 1, e)

\* client.ts:59-90: one pass through the loop of request(), from fetch() to
\* the return, the throw or the next test of the loop condition
RequestStep(res, a, le) ==
    IF res = NetworkError THEN Catch(Err("fetch failed", 0), a)
    ELSE IF res.status = 204 THEN Return("null")
    ELSE IF Ok(res)
    THEN (IF res.body = "malformed" THEN Catch(Err("invalid json", res.status), a)
          ELSE Return(res.body))
    ELSE IF Retryable(res)
    THEN (IF a + 1 < maxAttempts THEN Again(a + 1, le)
          ELSE Throw(IF le = NoErr THEN Err("Unknown Jira client error", 0) ELSE le))
    ELSE Catch(Err("Jira API", res.status), a)

\* client.ts:122,139,146: the endpoints of searchIssues, in the order tried
SearchEndpoints ==
    <<"GET /rest/api/3/search/jql", "POST /rest/api/3/search/jql", "GET /rest/api/3/search">>

EndpointName(method, n) ==
    CASE method = "searchIssues" -> SearchEndpoints[n]
      [] method = "getIssue" -> "GET /rest/api/3/issue/{key}"
      [] method = "getConfluencePage" -> "GET /rest/api/content/{id}"
      [] OTHER -> "GET /rest/api/search"

Value(v) == [kind |-> "value", value |-> v, err |-> NoErr]
Failure(e) == [kind |-> "error", value |-> "", err |-> e]
NoResult == [kind |-> "none", value |-> "", err |-> NoErr]

Responses(method) == IF method = "searchIssues" THEN SearchResponses ELSE AllResponses

ClientIdle ==
    /\ cop = [method |-> "none", fields |-> Undefined]
    /\ cpc = "idle"
    /\ endpoint = 0
    /\ attempt = 0
    /\ lastErr = NoErr
    /\ qpFields = ""
    /\ http = <<>>
    /\ result = NoResult

\* client.ts:150-155: getIssue up to its call of request()
CallGetIssue ==
    /\ cpc = "idle"
    /\ \E f \in FieldArgs :
          /\ cop' = [method |-> "getIssue", fields |-> f]
          /\ qpFields' = QueryFields(f)
    /\ cpc' = "request"
    /\ UNCHANGED <<endpoint, attempt, lastErr, http, result,
                   traversalVars, scoreVars, discoverVars, others>>

\* client.ts:101-122: searchIssues up to its first call of request()
CallSearchIssues ==
    /\ cpc = "idle"
    /\ \E f \in SearchFieldArgs :
          /\ cop' = [method |-> "searchIssues", fields |-> f]
          /\ qpFields' = QueryFields(f)
    /\ cpc' = "request"
    /\ endpoint' = 1
    /\ UNCHANGED <<attempt, lastErr, http, result, traversalVars, scoreVars, discoverVars, others>>

\* client.ts:276-296: getConfluencePage up to its fetch()
CallGetConfluencePage ==
    /\ cpc = "idle"
    /\ cop' = [method |-> "getConfluencePage", fields |-> Undefined]
    /\ cpc' = "fetch"
    /\ UNCHANGED <<endpoint, attempt, lastErr, qpFields, http, result,
                   traversalVars, scoreVars, discoverVars, others>>

\* client.ts:313-340: searchConfluencePages up to its fetch()
CallSearchConfluencePages ==
    /\ cpc = "idle"
    /\ cop' = [method |-> "searchConfluencePages", fields |-> Undefined]
    /\ cpc' = "fetch"
    /\ UNCHANGED <<endpoint, attempt, lastErr, qpFields, http, result,
                   traversalVars, scoreVars, discoverVars, others>>

\* request() has returned v to the method that called it
\* client.ts:151-154 (getIssue), 122-123 and 139-140 (searchIssues, a
\* fallback follows unless data && data.issues), 146-147 (legacy)
RequestReturned(v) ==
    IF cop.method = "searchIssues" /\ endpoint < Len(SearchEndpoints) /\ v # "issues"
    THEN /\ endpoint' = endpoint + 1
         /\ attempt' = 0
         /\ lastErr' = NoErr
         /\ UNCHANGED <<cpc, result>>
    ELSE /\ cpc' = "done"
         /\ result' = Value(v)
         /\ UNCHANGED <<endpoint, attempt, lastErr>>

RequestThrewToCaller(e) ==
    /\ cpc' = "done"
    /\ result' = Failure(e)
    /\ UNCHANGED <<endpoint, attempt, lastErr>>

\* request() has thrown e into the method that called it
\* client.ts:124-126 and 141-143 (catch (_e1) {}, catch (_e2) {}), 146 (legacy)
RequestThrew(e) ==
    IF cop.method = "searchIssues" /\ endpoint < Len(SearchEndpoints)
    THEN /\ endpoint' = endpoint + 1
         /\ attempt' = 0
         /\ lastErr' = NoErr
         /\ UNCHANGED <<cpc, result>>
    ELSE /\ cpc' = "done"
         /\ result' = Failure(e)
         /\ UNCHANGED <<endpoint, attempt, lastErr>>

Exchange(res) == [endpoint |-> EndpointName(cop.method, endpoint), res |-> res]

\* one pass through the loop of request() on response res
RequestPass(res) ==
    /\ cpc = "request"
    /\ http' = Append(http, Exchange(res))
    /\ LET o == RequestStep(res, attempt, lastErr) IN
          CASE o.kind = "return" -> RequestReturned(o.value)
            [] o.kind = "throw" -> RequestThrew(o.err)
            [] OTHER -> /\ attempt' = o.attempt
                        /\ lastErr' = o.lastErr
                        /\ UNCHANGED <<cpc, endpoint, result>>
    /\ UNCHANGED <<cop, qpFields, traversalVars, scoreVars, discoverVars, others>>

\* client.ts:61-69: 204 or a 2xx whose body is read
RequestAnswered ==
    \E res \in Responses(cop.method) :
        /\ Ok(res) /\ res.body # "malformed"
        /\ RequestPass(res)

\* client.ts:70-76: 429 or 5xx
RequestRetryable ==
    \E res \in Responses(cop.method) :
        /\ res # NetworkError /\ ~Ok(res) /\ Retryable(res)
        /\ RequestPass(res)

\* client.ts:78-88: any other status, a rejected fetch(), a body that does not parse
RequestCaught ==
    \E res \in Responses(cop.method) :
        /\ res = NetworkError \/ (Ok(res) /\ res.body = "malformed") \/ (~Ok(res) /\ ~Retryable(res))
        /\ RequestPass(res)

\* the Confluence servers explored: those above, and 200 with a JSON document
\* that has a `results` list of one page, without and with a `totalSize` of 1
ConfluenceResponses ==
    AllResponses \cup {Res(200, "results"), Res(200, "results,totalSize")}

\* client.ts:349-352: {results: data.results || [], totalSize: data.totalSize || 0}
SearchPagesValue(body) ==
    CASE body = "results,totalSize" -> "{results: [page], totalSize: 1}"
      [] body = "results" -> "{results: [page], totalSize: 0}"
      [] OTHER -> "{results: [], totalSize: 0}"

\* client.ts:296-310 (getConfluencePage) and 340-353 (searchConfluencePages):
\* one fetch(), its response turned into the return value or the error
ConfluenceStep(method, res) ==
    IF res = NetworkError THEN Failure(Err("fetch failed", 0))
    ELSE IF method = "getConfluencePage" /\ res.status = 404
    THEN Failure(Err("Confluence page not found", 404))
    ELSE IF ~Ok(res)
    THEN Failure(Err(IF method = "getConfluencePage" THEN "Confluence API"
                     ELSE "Confluence search API", res.status))
    ELSE IF res.status = 204 \/ res.body = "malformed" THEN Failure(Err("invalid json", res.status))
    ELSE IF method = "getConfluencePage" THEN Value(res.body)
    ELSE Value(SearchPagesValue(res.body))

\* client.ts:296 and 340: the single fetch() of a Confluence method
ConfluenceFetch ==
    /\ cpc = "fetch"
    /\ \E res \in ConfluenceResponses :
          /\ http' = Append(http, Exchange(res))
          /\ result' = ConfluenceStep(cop.method, res)
    /\ cpc' = "done"
    /\ UNCHANGED <<cop, endpoint, attempt, lastErr, qpFields, traversalVars, scoreVars, discoverVars, others>>

(* ----------------------- jira_find_similar_tickets -------------------- *)

\* a JavaScript Number in [1/16, 2) is kept as the IEEE 754 double it is: a
\* whole count of 2^-56, written in two words of 28 bits as hi * 2^28 + lo
Word == 2^28
Digit == 2^14
Number(hi, lo) == [hi |-> hi, lo |-> lo]

\* part_003:1334: a - b < 0
Less(a, b) == a.hi < b.hi \/ (a.hi = b.hi /\ a.lo < b.lo)

\* the distance between neighbouring doubles at x, as a count of 2^-56
Ulp(x) ==
    CASE x.hi >= Word -> 16
      [] x.hi >= Word \div 2 -> 8
      [] x.hi >= Word \div 4 -> 4
      [] x.hi >= Word \div 8 -> 2
      [] OTHER -> 1

\* the double an arithmetic operation delivers for the exact result
\* x + f * 2^-56 (round to nearest, ties to even), where frac tells f:
\* 0 for f = 0, 1 for 0 < f < 1/2, 2 for f = 1/2, 3 for 1/2 < f < 1
Nearest(x, frac) ==
    LET ulp == Ulp(x)
        rest == 4 * (x.lo % ulp) + frac
        down == Number(x.hi, x.lo - (x.lo % ulp))
        lo == down.lo + ulp
        up == Number(down.hi + lo \div Word, lo % Word)
    IN  IF rest < 2 * ulp THEN down
        ELSE IF rest > 2 * ulp THEN up
        ELSE IF (x.lo \div ulp) % 2 = 0 THEN down ELSE up

\* part_003:1310: a + b
Plus(a, b) ==
    LET lo == a.lo + b.lo
    IN  Nearest(Number(a.hi + b.hi + lo \div Word, lo % Word), 0)

\* the four digits of 14 bits of a Number below 1, lowest first
Digits(x) == <<x.lo % Digit, x.lo \div Digit, x.hi % Digit, x.hi \div Digit>>

RECURSIVE Column(_, _, _, _)
Column(a, b, k, i) ==
    IF i > 4 THEN 0
    ELSE (IF k + 1 - i \in 1..4 THEN a[i] * b[k + 1 - i] ELSE 0) + Column(a, b, k, i + 1)

\* the eight digits of the exact product of a and b, a count of 2^-112
RECURSIVE Product(_, _, _, _)
Product(a, b, k, carry) ==
    IF k > 8 THEN <<>>
    ELSE LET v == Column(a, b, k, 1) + carry
         IN  <<v % Digit>> \o Product(a, b, k + 1, v \div Digit)

\* part_003:1310: a * b, for a and b below 1
Times(a, b) ==
    LET p == Product(Digits(a), Digits(b), 1, 0)
        none == p[1] = 0 /\ p[2] = 0 /\ p[3] = 0
        frac == IF none /\ p[4] = 0 THEN 0
                ELSE IF p[4] < Digit \div 2 THEN 1
                ELSE IF none /\ p[4] = Digit \div 2 THEN 2
                ELSE 3
    IN  Nearest(Number(p[7] + p[8] * Digit, p[5] + p[6] * Digit), frac)

\* part_003:1310: Math.min(a, b)
MathMin(a, b) == IF Less(b, a) THEN b ELSE a

\* part_003:1248: weight: 0.7, the double 0x1.6666666666666p-1
KeywordWeight == Number(187904819, 53687088)
\* part_003:1260: weight: 0.9, the double 0x1.ccccccccccccdp-1
ComponentWeight == Number(241591910, 107374184)
\* part_003:1272: weight: 0.6, the double 0x1.3333333333333p-1
LabelWeight == Number(161061273, 161061272)
\* part_003:1283: weight: 0.4, the double 0x1.999999999999ap-2
AssigneeWeight == Number(107374182, 107374184)
\* part_003:1310: 1.0
FullScore == Number(Word, 0)
\* part_003:1310: 0.3, the double 0x1.3333333333333p-2
BoostFactor == Number(80530636, 214748364)
\* part_003:1242
TopKeywords == 5

Min(a, b) == IF a < b THEN a ELSE b

NoAssignee == ""

\* a text is kept as the sequence of its words, each a string; "" and a
\* missing text are <<>>
\* /\b[A-Z]{2,}\b/g: the words written in two or more capitals
InCapitals(word) == word \in {"API", "SDK", "INFRASTRUCTURE"}

\* String.prototype.length over the words of the ticket texts
WordLength(word) ==
    CASE word = "INFRASTRUCTURE" -> 14
      [] word = "Queue" -> 5
      [] word = "of" -> 2
      [] OTHER -> 3

\* part_003:1215 and 697: a.length >= 2 && a.length <= 8
AcronymMinLength == 2
AcronymMaxLength == 8

\* part_003:1221: the alternatives of the domain-term pattern
DomainTerms ==
    {"provider", "service", "controller", "repository", "handler", "processor", "manager",
     "client", "server", "api", "endpoint", "queue", "stream", "pipeline", "migration",
     "schema", "database", "metrics", "monitoring", "authentication", "authorization",
     "deployment", "infrastructure"}

\* part_003:699: the alternatives of the domain-term pattern of step 5b
DiscoveryDomainTerms ==
    DomainTerms \ {"authentication", "authorization", "deployment", "infrastructure"}

\* Set.prototype.add, one value after the other; the Set is kept as its
\* values in insertion order
RECURSIVE AddAll(_, _)
AddAll(set, values) ==
    IF values = <<>> THEN set
    ELSE LET rest == AddAll(set, SubSeq(values, 1, Len(values) - 1))
             v == values[Len(values)]
         IN  IF \E j \in 1..Len(rest) : rest[j] = v THEN rest ELSE Append(rest, v)

\* the acronyms of a text that are added, then its domain terms (the pattern
\* has the flag i) in lower case
TermsOf(words, terms) ==
    LET acronyms == SelectSeq(words, InCapitals)
        kept == SelectSeq(acronyms, LAMBDA a : WordLength(a) >= AcronymMinLength
                                               /\ WordLength(a) <= AcronymMaxLength)
        domainTerms == SelectSeq(words, LAMBDA w : ToLowerCase(w) \in terms)
    IN  kept \o [j \in 1..Len(domainTerms) |-> ToLowerCase(domainTerms[j])]

\* part_003:1208-1223: keywords after extractTerms(text)
extractTerms(keywords, words) == AddAll(keywords, TermsOf(words, DomainTerms))

\* part_003:1233: .slice(-3)
RecentComments == 3

\* part_003:1231-1235: summary, description, then the last three comments
ExtractedKeywords(source) ==
    LET n == Len(source.comments)
        recent == SubSeq(source.comments, n - Min(n, RecentComments) + 1, n)
        RECURSIVE Over(_, _)
        Over(keywords, texts) ==
            IF texts = <<>> THEN keywords
            ELSE Over(extractTerms(keywords, Head(texts)), Tail(texts))
    IN  Over(<<>>, <<source.summary, source.description>> \o recent)

Texts(summary, description, comments) ==
    [summary |-> summary, description |-> description, comments |-> comments]

\* the texts of the source tickets explored: none; a summary and a description
\* with the same over-long acronym and four comments; one acronym that is a
\* domain term as well
SourceTexts ==
    {Texts(<<>>, <<>>, <<>>),
     Texts(<<"INFRASTRUCTURE">>, <<"of", "the", "INFRASTRUCTURE">>,
           <<<<"the", "Queue">>, <<>>, <<"the">>, <<>>>>),
     Texts(<<"API">>, <<>>, <<>>)}

\* the source tickets explored: what step 1 of the handler reads of each; the
\* last has an acronym and another domain term and nothing but its texts
SourceTickets ==
    {[summary |-> t.summary, description |-> t.description, comments |-> t.comments,
      components |-> c, labels |-> l, assignee |-> a] :
        t \in SourceTexts, c \in {<<>>, <<"backend">>}, l \in {<<>>, <<"infra">>},
        a \in {NoAssignee, "alice"}}
    \cup {[summary |-> <<"the", "API">>, description |-> <<"Queue">>, comments |-> <<>>,
           components |-> <<>>, labels |-> <<>>, assignee |-> NoAssignee]}

\* the strategy switches explored
StrategyFlags ==
    {[includeKeywords |-> k, includeComponents |-> c, includeLabels |-> TRUE, includeAssignee |-> TRUE] :
        k \in BOOLEAN, c \in BOOLEAN} \ {[includeKeywords |-> FALSE, includeComponents |-> FALSE,
                                          includeLabels |-> TRUE, includeAssignee |-> TRUE]}

SourceKey == "S"
CandidateKeys == {"X", "Y"}

\* res.issues of one search, as the keys of its issues
Hits == {<<>>, <<"X">>, <<"Y">>, <<"X", "Y">>, <<"S", "X">>}

SimilarInputs == [source : SourceTickets, flags : StrategyFlags, limit : {1, 2}]

Search(strategy, weight) == [strategy |-> strategy, weight |-> weight]

\* part_003:1240-1286: the searches array, category by category
BuildSearches(in) ==
    LET keywords == ExtractedKeywords(in.source)
        kw == SubSeq(keywords, 1, Min(TopKeywords, Len(keywords)))
    IN  (IF in.flags.includeKeywords /\ Len(keywords) > 0
         THEN [j \in 1..Len(kw) |-> Search("keyword: " \o kw[j], KeywordWeight)]
         ELSE <<>>)
        \o (IF in.flags.includeComponents /\ Len(in.source.components) > 0
            THEN [j \in 1..Len(in.source.components) |->
                     Search("component: " \o in.source.components[j], ComponentWeight)]
            ELSE <<>>)
        \o (IF in.flags.includeLabels /\ Len(in.source.labels) > 0
            THEN [j \in 1..Len(in.source.labels) |->
                     Search("label: " \o in.source.labels[j], LabelWeight)]
            ELSE <<>>)
        \o (IF in.flags.includeAssignee /\ in.source.assignee # NoAssignee
            THEN <<Search("assignee: " \o in.source.assignee, AssigneeWeight)>>
            ELSE <<>>)

\* similarTicketsMap.has(key); the Map is kept as its entries in insertion order
Has(map, key) == \E j \in 1..Len(map) : map[j].key = key

BoostUncapped(score, weight) == Plus(score, Times(weight, BoostFactor))

BoostOverwrites(score, weight) == weight

BoostTakesMax(score, weight) == IF Less(score, weight) THEN weight ELSE score

\* part_003:1310
Boost(score, weight) == MathMin(FullScore, Plus(score, Times(weight, BoostFactor)))

\* part_003:1308-1326: one issue of a search result
Upsert(map, key, search) ==
    IF Has(map, key)
    THEN [j \in 1..Len(map) |->
            IF map[j].key = key
            THEN [map[j] EXCEPT !.confidenceScore = Boost(@, search.weight),
                                !.matchReason = @ \o ", " \o search.strategy]
            ELSE map[j]]
    ELSE Append(map, [key |-> key, confidenceScore |-> search.weight,
                      matchReason |-> search.strategy])

\* part_003:1303-1327: the loop over res.issues, the source ticket skipped
RECURSIVE Collect(_, _, _)
Collect(map, issues, search) ==
    IF issues = <<>> THEN map
    ELSE LET rest == Collect(map, SubSeq(issues, 1, Len(issues) - 1), search)
             key == issues[Len(issues)]
         IN  IF key = SourceKey THEN rest ELSE Upsert(rest, key, search)

\* the weights that matched each candidate, in the order they did
RECURSIVE Record(_, _, _)
Record(m, issues, search) ==
    IF issues = <<>> THEN m
    ELSE LET rest == Record(m, SubSeq(issues, 1, Len(issues) - 1), search)
             key == issues[Len(issues)]
         IN  IF key = SourceKey THEN rest ELSE [rest EXCEPT ![key] = Append(@, search.weight)]

\* Array.prototype.sort((a, b) => b.confidenceScore - a.confidenceScore): stable
RECURSIVE SortByConfidence(_)
SortByConfidence(s) ==
    IF s = <<>> THEN <<>>
    ELSE LET front == SortByConfidence(SubSeq(s, 1, Len(s) - 1))
             e == s[Len(s)]
             ahead == SelectSeq(front, LAMBDA x : ~Less(x.confidenceScore, e.confidenceScore))
             behind == SelectSeq(front, LAMBDA x : Less(x.confidenceScore, e.confidenceScore))
         IN  ahead \o <<e>> \o behind

\* part_003:1334-1336
SortedTickets(map, limit) ==
    LET s == SortByConfidence(map) IN SubSeq(s, 1, Min(limit, Len(s)))

ScoreIdle ==
    /\ simInput = [source |-> [summary |-> <<>>, description |-> <<>>, comments |-> <<>>,
                               components |-> <<>>, labels |-> <<>>,
                               assignee |-> NoAssignee],
                   flags |-> [includeKeywords |-> TRUE, includeComponents |-> TRUE,
                              includeLabels |-> TRUE, includeAssignee |-> TRUE],
                   limit |-> 1]
    /\ spc = "idle"
    /\ searches = <<>>
    /\ sidx = 0
    /\ similarTicketsMap = <<>>
    /\ strategiesUsed = <<>>
    /\ matched = [k \in CandidateKeys |-> <<>>]
    /\ sortedTickets = <<>>

\* part_003:1200-1290: the source ticket is read, the searches are built
BuildSearchList ==
    /\ spc = "idle"
    /\ searches' = BuildSearches(simInput)
    /\ sidx' = 1
    /\ spc' = "searching"
    /\ UNCHANGED <<simInput, similarTicketsMap, strategiesUsed, matched, sortedTickets,
                   traversalVars, clientVars, discoverVars, others>>

\* part_003:1292-1326: a search answers, its issues are folded into the map
SearchOk ==
    /\ spc = "searching"
    /\ sidx <= Len(searches)
    /\ \E issues \in Hits :
          /\ similarTicketsMap' = Collect(similarTicketsMap, issues, searches[sidx])
          /\ matched' = Record(matched, issues, searches[sidx])
    /\ strategiesUsed' = Append(strategiesUsed, searches[sidx].strategy)
    /\ sidx' = sidx + 1
    /\ UNCHANGED <<simInput, spc, searches, sortedTickets, traversalVars, clientVars, discoverVars, others>>

\* part_003:1293,1327-1330: searchIssues rejects, the search is skipped
SearchFail ==
    /\ spc = "searching"
    /\ sidx <= Len(searches)
    /\ sidx' = sidx + 1
    /\ UNCHANGED <<simInput, spc, searches, similarTicketsMap, strategiesUsed, matched,
                   sortedTickets, traversalVars, clientVars, discoverVars, others>>

\* part_003:1333-1352: the candidates are sorted and cut to input.limit
SortAndLimit ==
    /\ spc = "searching"
    /\ sidx > Len(searches)
    /\ sortedTickets' = SortedTickets(similarTicketsMap, simInput.limit)
    /\ spc' = "done"
    /\ UNCHANGED <<simInput, searches, sidx, similarTicketsMap, strategiesUsed, matched,
                   traversalVars, clientVars, discoverVars, others>>

(* ------------------ jira_dependency_analysis: step 5b ----------------- *)

\* part_003:684
SparseDescriptionLength == 50

\* part_003:790: similarTicketsResults.slice(0, 10)
SimilarTicketsShown == 10

\* part_003:791: confluenceResults.slice(0, 5)
ConfluenceResultsShown == 5

\* part_003:708: .slice(0, 3)
DiscoveryTicketKeywords == 3

\* part_003:746: .slice(0, 2)
DiscoveryPageKeywords == 2

\* part_003:713: maxResults: 5
DiscoveryMaxResults == 5

\* part_003:749: searchConfluencePages(cqlQuery, 3, 0)
DiscoveryPageLimit == 3

\* ticket.description: adfToPlainText(...) || undefined, kept as its length
\* and its words
NoDescription == [present |-> FALSE, length |-> 0, text |-> <<>>]
Description(n, words) == [present |-> TRUE, length |-> n, text |-> words]

\* the root tickets explored
Tickets ==
    [components : {<<>>, <<"backend">>},
     labels : {<<>>, <<"infra">>},
     summary : {<<>>, <<"API">>, <<"the", "Queue", "API", "of", "the", "SDK">>},
     description : {NoDescription, Description(1, <<>>),
                    Description(SparseDescriptionLength - 1, <<"the", "INFRASTRUCTURE">>),
                    Description(SparseDescriptionLength, <<>>),
                    Description(SparseDescriptionLength + 1, <<"the", "SDK">>)}]

IsSparseWithoutLabels(t) ==
    \/ Len(t.components) = 0
    \/ ~t.description.present
    \/ t.description.length < SparseDescriptionLength

\* part_003:682-685
IsSparseTicket(t) ==
    \/ Len(t.components) = 0
    \/ ~t.description.present
    \/ t.description.length < SparseDescriptionLength
    \/ Len(t.labels) = 0

\* part_003:693-701: discoveryKeywords after extractDiscoveryTerms(text)
extractDiscoveryTerms(keywords, words) ==
    AddAll(keywords, TermsOf(words, DiscoveryDomainTerms))

\* part_003:702-703: the summary, then the description
DiscoveryKeywords(t) ==
    extractDiscoveryTerms(extractDiscoveryTerms(<<>>, t.summary), t.description.text)

\* part_003:708 and 746: Array.from(discoveryKeywords).slice(0, n)
TopOf(keywords, n) == SubSeq(keywords, 1, Min(n, Len(keywords)))

\* res.issues of the search of the at-th keyword: no issue, the root itself
\* and another, two others, or maxResults issues no other search finds
DiscoveryHits(at) ==
    Hits \cup {[n \in 1..DiscoveryMaxResults |-> "P" \o ToString(at) \o ToString(n)]}

\* the numbers of res.results explored
DiscoveryPages == {0, 1, DiscoveryPageLimit}

NoDiscovery ==
    [present |-> FALSE, is_sparse_ticket |-> FALSE, similar_tickets |-> <<>>,
     confluence_results |-> 0, discovery_summary |-> ""]

\* part_003:778-785
DiscoverySummary(similar, pages) ==
    IF similar = 0 /\ pages = 0
    THEN "no similar context found (ticket may be unique or use different terminology)"
    ELSE "found " \o ToString(similar) \o " similar tickets"
            \o (IF pages > 0 THEN " and " \o ToString(pages) \o " confluence pages" ELSE "")

\* part_003:718-736: the issues of one discovery search, each key once, the root skipped
RECURSIVE CollectSimilar(_, _)
CollectSimilar(found, issues) ==
    IF issues = <<>> THEN found
    ELSE LET rest == CollectSimilar(found, SubSeq(issues, 1, Len(issues) - 1))
             key == issues[Len(issues)]
         IN  IF key = SourceKey \/ (\E j \in 1..Len(rest) : rest[j] = key)
             THEN rest ELSE Append(rest, key)

DiscoverIdle ==
    /\ ticket = [components |-> <<>>, labels |-> <<>>, summary |-> <<>>,
                 description |-> NoDescription]
    /\ autoDiscover = FALSE
    /\ dpc = "idle"
    /\ kwAt = 0
    /\ discovered = [similar |-> <<>>, pages |-> 0]
    /\ contextDiscovery = NoDiscovery

DiscoverUnchanged ==
    UNCHANGED <<ticket, autoDiscover, traversalVars, clientVars, scoreVars, others>>

\* part_003:677-680: step 5b is reached
EnterDiscovery ==
    /\ dpc = "idle"
    /\ dpc' = "check"
    /\ UNCHANGED <<kwAt, discovered, contextDiscovery>>
    /\ DiscoverUnchanged

\* part_003:680-687: autoDiscover is off or the ticket is not sparse
DiscoverySkipped ==
    /\ dpc = "check"
    /\ ~(autoDiscover /\ IsSparseTicket(ticket))
    /\ dpc' = "done"
    /\ UNCHANGED <<kwAt, discovered, contextDiscovery>>
    /\ DiscoverUnchanged

\* part_003:687-706: the ticket is sparse, no keyword was extracted
DiscoveryWithoutKeywords ==
    /\ dpc = "check"
    /\ autoDiscover /\ IsSparseTicket(ticket)
    /\ Len(DiscoveryKeywords(ticket)) = 0
    /\ dpc' = "build"
    /\ UNCHANGED <<kwAt, discovered, contextDiscovery>>
    /\ DiscoverUnchanged

\* part_003:687-710: the ticket is sparse, the search of the first keyword is awaited
DiscoveryWithKeywords ==
    /\ dpc = "check"
    /\ autoDiscover /\ IsSparseTicket(ticket)
    /\ Len(DiscoveryKeywords(ticket)) > 0
    /\ dpc' = "similar"
    /\ kwAt' = 1
    /\ UNCHANGED <<discovered, contextDiscovery>>
    /\ DiscoverUnchanged

\* part_003:709-749: the search of one keyword answers, its issues are
\* collected, and the next search is awaited: that of the next keyword, or
\* after the last the Confluence search of the first keyword
SimilarSearchOk ==
    /\ dpc = "similar"
    /\ \E issues \in DiscoveryHits(kwAt) :
          discovered' = [discovered EXCEPT !.similar = CollectSimilar(@, issues)]
    /\ IF kwAt < Len(TopOf(DiscoveryKeywords(ticket), DiscoveryTicketKeywords))
       THEN dpc' = dpc /\ kwAt' = kwAt + 1
       ELSE dpc' = "confluence" /\ kwAt' = 1
    /\ UNCHANGED contextDiscovery
    /\ DiscoverUnchanged

\* part_003:707-749: a keyword search rejects; the try (707, catch 739) holds the whole
\* loop, so the keywords left are not searched and what was collected stays
SimilarSearchFail ==
    /\ dpc = "similar"
    /\ dpc' = "confluence"
    /\ kwAt' = 1
    /\ UNCHANGED <<discovered, contextDiscovery>>
    /\ DiscoverUnchanged

\* part_003:747-770: the Confluence search of one keyword answers, its
\* results are pushed, and the search of the next keyword is awaited, if any
ConfluenceSearchOk ==
    /\ dpc = "confluence"
    /\ \E n \in DiscoveryPages :
          discovered' = [discovered EXCEPT !.pages = @ + n]
    /\ IF kwAt < Len(TopOf(DiscoveryKeywords(ticket), DiscoveryPageKeywords))
       THEN dpc' = dpc /\ kwAt' = kwAt + 1
       ELSE dpc' = "build" /\ kwAt' = 0
    /\ UNCHANGED contextDiscovery
    /\ DiscoverUnchanged

\* part_003:745-776: a Confluence search rejects; the try (745, catch 773) holds the whole
\* loop, so the results pushed before stay
ConfluenceSearchFail ==
    /\ dpc = "confluence"
    /\ dpc' = "build"
    /\ kwAt' = 0
    /\ UNCHANGED <<discovered, contextDiscovery>>
    /\ DiscoverUnchanged

\* part_003:777-793: the summary counts what was found, the lists are cut
BuildDiscovery ==
    /\ dpc = "build"
    /\ contextDiscovery' =
          [present |-> TRUE,
           is_sparse_ticket |-> IsSparseTicket(ticket),
           similar_tickets |-> SubSeq(discovered.similar, 1,
                                      Min(Len(discovered.similar), SimilarTicketsShown)),
           confluence_results |-> Min(discovered.pages, ConfluenceResultsShown),
           discovery_summary |-> DiscoverySummary(Len(discovered.similar), discovered.pages)]
    /\ dpc' = "done"
    /\ UNCHANGED <<kwAt, discovered>>
    /\ DiscoverUnchanged

(* ----------------------- toADF, adfToPlainText ------------------------ *)

\* the characters of the strings explored; a string is the sequence of its
\* characters and "" is <<>>
Chars == {"a", " ", "\n"}

MaxLen == 3

Strings == UNION {[1..n -> Chars] : n \in 0..MaxLen}

\* an argument that was not passed
Missing == [k |-> "undefined"]

Given(s) == [k |-> "string", s |-> s]

\* `plain ? ... : ...`: undefined and "" are falsy
TruthyString(v) == v.k = "string" /\ v.s # <<>>

toADFEmptyParagraph(p) ==
    [type |-> "doc", version |-> 1, content |-> <<[type |-> "paragraph", content |-> <<>>]>>]

\* issues.ts:3-14
toADF(p) ==
    [type |-> "doc", version |-> 1,
     content |-> <<[type |-> "paragraph",
                    content |-> IF TruthyString(p)
                                THEN <<[type |-> "text", text |-> p.s]>>
                                ELSE <<>>]>>]

\* no document: undefined
NoDoc == [type |-> "none", version |-> 0, content |-> <<>>]

\* Array.prototype.join over strings
RECURSIVE JoinStrings(_, _)
JoinStrings(items, sep) ==
    IF items = <<>> THEN <<>>
    ELSE IF Len(items) = 1 THEN items[1]
    ELSE JoinStrings(SubSeq(items, 1, Len(items) - 1), sep) \o sep \o items[Len(items)]

\* issues.ts:27-32: the text of one paragraph
ParagraphText(node) ==
    LET texts == SelectSeq(node.content, LAMBDA t : t.type = "text")
    IN  JoinStrings([j \in 1..Len(texts) |-> texts[j].text], <<>>)

\* issues.ts:20-36
adfToPlainText(d) ==
    IF d = NoDoc THEN <<>> ELSE
    LET paragraphs == SelectSeq(d.content, LAMBDA node : node.type = "paragraph")
        lines == [j \in 1..Len(paragraphs) |-> ParagraphText(paragraphs[j])]
    IN  JoinStrings(SelectSeq(lines, LAMBDA l : l # <<>>), <<"\n">>)

AdfIdle ==
    /\ plain = Missing
    /\ adf = NoDoc
    /\ text = <<>>
    /\ apc = "idle"

\* issues.ts:3-14: toADF(plain) is called
CallToADF ==
    /\ apc = "plain"
    /\ adf' = toADF(plain)
    /\ apc' = "adf"
    /\ UNCHANGED <<plain, text, traversalVars, clientVars, scoreVars, discoverVars,
                   extractVars, commentVars, serverVars>>

\* issues.ts:20-36: adfToPlainText is called on the document
CallAdfToPlainText ==
    /\ apc = "adf"
    /\ text' = adfToPlainText(adf)
    /\ apc' = "text"
    /\ UNCHANGED <<plain, adf, traversalVars, clientVars, scoreVars, discoverVars,
                   extractVars, commentVars, serverVars>>

(* ----------------------- extractConfluenceLinks ----------------------- *)

\* JavaScript values of an ADF tree
Undef == [k |-> "undefined"]
NullV == [k |-> "null"]
\* a number other than 0, such as 42
NumV == [k |-> "number"]
S(s) == [k |-> "string", s |-> s]
Array(items) == [k |-> "array", items |-> items]
Attrs(url, title, id, extensionKey, parameters, href) ==
    [k |-> "object", url |-> url, title |-> title, id |-> id, pageId |-> Undef,
     extensionKey |-> extensionKey, parameters |-> parameters, href |-> href]
Params(contentId) == [k |-> "object", contentId |-> contentId, title |-> Undef]
AdfNode(type, attrs, content, marks) ==
    [k |-> "object", type |-> type, attrs |-> attrs, content |-> content, marks |-> marks]

\* a value in a condition
Truthy(v) == v.k \notin {"undefined", "null"} /\ ~(v.k = "string" /\ v.s = "")

\* o.name and o?.name: undefined when o is not an object that has the property
Prop(o, name) == IF o.k = "object" /\ name \in DOMAIN o THEN o[name] ELSE Undef

\* a || b
Or(a, b) == IF Truthy(a) THEN a ELSE b

\* config.confluenceBaseUrl
confluenceBaseUrl == "https://c.example/wiki"

\* part_003:1574,1590
ViewUrl(pageId) == confluenceBaseUrl \o "/pages/viewpage.action?pageId=" \o pageId

SpaceUrl == "https://c.example/wiki/spaces/S/pages/2/t"
ExternalUrl == "https://other.example/doc"

PageIds == {"1", "2"}

\* part_003:1559,1614: url.includes(confluenceBaseUrl) || url.includes("/wiki/"),
\* over the URLs of the documents explored
IsConfluenceUrl(url) == url \in {ViewUrl(id) : id \in PageIds} \cup {SpaceUrl}

\* part_003:1639-1649, over the URLs of the documents explored
extractPageIdFromUrl(url) ==
    IF \E id \in PageIds : url = ViewUrl(id)
    THEN S(CHOOSE id \in PageIds : url = ViewUrl(id))
    ELSE IF url = SpaceUrl THEN S("2")
    ELSE Undef

\* the locals of one extractConfluenceLinks call; threw: a TypeError has left it
Walk(ls, seen, threw) == [links |-> ls, seen |-> seen, threw |-> threw]

Threw(w) == [w EXCEPT !.threw = TRUE]

PushAlways(w, url, title, pageId) ==
    [w EXCEPT !.links = Append(@, [url |-> url, title |-> title, pageId |-> pageId])]

\* part_003:1560-1566, 1575-1581, 1591-1597, 1615-1620: if (!seen.has(url)) { seen.add; links.push }
Push(w, url, title, pageId) ==
    IF url \in w.seen THEN w
    ELSE [w EXCEPT !.seen = @ \cup {url},
                   !.links = Append(@, [url |-> url, title |-> title, pageId |-> pageId])]

\* part_003:1557-1569: an inline card; includes() is a method of strings
InlineCardRule(node, w) ==
    LET url == Prop(node.attrs, "url") IN
    IF node.type = "inlineCard" /\ Truthy(url)
    THEN IF url.k # "string" THEN Threw(w)
         ELSE IF IsConfluenceUrl(url.s)
         THEN Push(w, url, Prop(node.attrs, "title"), extractPageIdFromUrl(url.s))
         ELSE w
    ELSE w

\* part_003:1572-1583: an embedded page; match() is a method of strings
ConfluencePageRule(node, w) ==
    IF node.type = "confluencePage" /\ Truthy(node.attrs)
    THEN LET pageId == Or(Prop(node.attrs, "id"), Prop(node.attrs, "pageId"))
             url == Or(Prop(node.attrs, "url"),
                       IF Truthy(pageId) THEN S(ViewUrl(pageId.s)) ELSE Undef)
         IN  IF Truthy(url) /\ url \notin w.seen
             THEN IF Truthy(pageId) THEN Push(w, url, Prop(node.attrs, "title"), pageId)
                  ELSE IF url.k # "string" THEN Threw(w)
                  ELSE Push(w, url, Prop(node.attrs, "title"), extractPageIdFromUrl(url.s))
             ELSE w
    ELSE w

\* part_003:1586-1600: a confluence-content macro
ExtensionRule(node, w) ==
    IF node.type = "bodiedExtension"
          /\ Prop(node.attrs, "extensionKey") = S("confluence-content")
    THEN LET params == Prop(node.attrs, "parameters")
             contentId == Prop(params, "contentId")
         IN  IF Truthy(contentId)
             THEN Push(w, S(ViewUrl(contentId.s)), Prop(params, "title"), contentId)
             ELSE w
    ELSE w

\* part_003:1612-1623: one entry of node.marks; null has no property `type`
MarkRule(mark, w) ==
    IF mark.k \in {"undefined", "null"} THEN Threw(w)
    ELSE LET href == Prop(Prop(mark, "attrs"), "href") IN
         IF mark.k = "object" /\ mark.type = "link" /\ Truthy(href)
         THEN IF href.k # "string" THEN Threw(w)
              ELSE IF IsConfluenceUrl(href.s)
              THEN Push(w, href, Undef, extractPageIdFromUrl(href.s))
              ELSE w
         ELSE w

\* part_003:1610-1625: the loop over node.marks
RECURSIVE MarkRules(_, _)
MarkRules(marks, w) ==
    IF marks = <<>> THEN w
    ELSE LET before == MarkRules(SubSeq(marks, 1, Len(marks) - 1), w)
         IN  IF before.threw THEN before ELSE MarkRule(marks[Len(marks)], before)

\* a statement runs unless an exception is on its way out
Then(w, after) == IF w.threw THEN w ELSE after

\* part_003:1553-1626: traverse(node), and its loop over node.content
RECURSIVE Visit(_, _)
RECURSIVE VisitAll(_, _)
Visit(node, w) ==
    IF w.threw \/ ~Truthy(node) \/ node.k # "object" THEN w
    ELSE LET w1 == InlineCardRule(node, w)
             w2 == Then(w1, ConfluencePageRule(node, w1))
             w3 == Then(w2, ExtensionRule(node, w2))
             w4 == Then(w3, IF Prop(node, "content").k = "array"
                            THEN VisitAll(node.content.items, w3) ELSE w3)
         IN  Then(w4, IF Prop(node, "marks").k = "array"
                      THEN MarkRules(node.marks.items, w4) ELSE w4)

VisitAll(children, w) ==
    IF children = <<>> THEN w
    ELSE Visit(children[Len(children)], VisitAll(SubSeq(children, 1, Len(children) - 1), w))

NoLinks == [kind |-> "none", links |-> <<>>]
Links(ls) == [kind |-> "links", links |-> ls]
TypeError == [kind |-> "threw", links |-> <<>>]

\* part_003:1549-1630
extractConfluenceLinks(d) ==
    LET w == Visit(d, Walk(<<>>, {}, FALSE))
    IN  IF w.threw THEN TypeError ELSE Links(w.links)

(* the documents explored *)

InlineCard(url) == AdfNode("inlineCard", Attrs(url, S("t"), Undef, Undef, Undef, Undef), Undef, Undef)
ConfluencePage(id, url) ==
    AdfNode("confluencePage", Attrs(url, Undef, id, Undef, Undef, Undef), Undef, Undef)
Extension(key, contentId) ==
    AdfNode("bodiedExtension", Attrs(Undef, Undef, Undef, S(key), Params(contentId), Undef),
            Array(<<>>), Undef)
LinkMark(href) ==
    [k |-> "object", type |-> "link", attrs |-> Attrs(Undef, Undef, Undef, Undef, Undef, href)]
TextNode(marks) == AdfNode("text", Undef, Undef, Array(marks))
Paragraph(children) == AdfNode("paragraph", Undef, Array(children), Undef)
Doc(children) == AdfNode("doc", Undef, Array(children), Undef)

\* nodes every one of whose attributes has the type the ADF schema gives it
Leaves ==
    {InlineCard(S(ViewUrl("1"))), InlineCard(S(ExternalUrl)),
     ConfluencePage(S("1"), Undef), ConfluencePage(Undef, S(ViewUrl("1"))),
     Extension("confluence-content", S("1")), Extension("jira", S("1")),
     TextNode(<<LinkMark(S(ViewUrl("1")))>>),
     Paragraph(<<InlineCard(S(SpaceUrl))>>)}

\* nodes of an unknown type, with attrs that are not an object, with a url
\* or href that is not a string, null or non-object entries
OddLeaves ==
    {AdfNode("mention", S("x"), Undef, Undef),
     InlineCard(NumV), ConfluencePage(Undef, NumV), ConfluencePage(S("1"), NumV),
     TextNode(<<LinkMark(NumV)>>), TextNode(<<NullV>>), TextNode(<<NumV>>),
     NullV, NumV}

MaxNodes == 2

Docs == {Doc(c) : c \in UNION {[1..n -> Leaves \cup OddLeaves] : n \in 0..MaxNodes}}

\* the description and the comment bodies of the issues explored
Bodies ==
    {Doc(<<>>),
     Doc(<<InlineCard(S(ViewUrl("1"))), TextNode(<<LinkMark(S(ViewUrl("1")))>>)>>),
     Doc(<<Extension("confluence-content", S("1"))>>),
     Doc(<<ConfluencePage(S("1"), Undef), Paragraph(<<InlineCard(S(SpaceUrl))>>)>>),
     Doc(<<TextNode(<<NullV>>)>>)}

Comment(body) == [k |-> "object", body |-> body]

Issues ==
    [description : Bodies \cup {Undef},
     comments : {<<>>} \cup {<<Comment(b)>> : b \in Bodies}
                  \cup {<<Comment(b[1]), Comment(b[2])>> : b \in Bodies \X Bodies}]

ExtractIdle ==
    /\ doc = Undef
    /\ extracted = NoLinks
    /\ issue = [description |-> Undef, comments |-> <<>>]
    /\ allLinks = <<>>
    /\ seenUrls = {}
    /\ cidx = 0
    /\ xpc = "idle"

ExtractUnchanged ==
    UNCHANGED <<traversalVars, clientVars, scoreVars, discoverVars, adfVars, commentVars, serverVars>>

\* part_003:1549-1630: extractConfluenceLinks(doc, config.confluenceBaseUrl) is called
CallExtractConfluenceLinks ==
    /\ xpc = "extract"
    /\ extracted' = extractConfluenceLinks(doc)
    /\ xpc' = "extracted"
    /\ UNCHANGED <<doc, issue, allLinks, seenUrls, cidx>>
    /\ ExtractUnchanged

\* allLinks and seen of the handler
Merged(all, seen) == [links |-> all, seen |-> seen]

\* part_003:322-331, 340-349: the links of one body are added unless seen
RECURSIVE Merge(_, _)
Merge(ls, m) ==
    IF ls = <<>> THEN m
    ELSE LET before == Merge(SubSeq(ls, 1, Len(ls) - 1), m)
             link == ls[Len(ls)]
         IN  IF link.url \in before.seen THEN before
             ELSE Merged(Append(before.links, [pageId |-> link.pageId, url |-> link.url,
                                               title |-> link.title]),
                         before.seen \cup {link.url})

\* part_003:320-321, 338-339: the links of a body, none when the body is missing
MergeBody(body) ==
    IF Truthy(body)
    THEN LET r == extractConfluenceLinks(body) IN
         IF r.kind = "threw"
         THEN /\ xpc' = "failed"
              /\ UNCHANGED <<allLinks, seenUrls, cidx>>
         ELSE /\ allLinks' = Merge(r.links, Merged(allLinks, seenUrls)).links
              /\ seenUrls' = Merge(r.links, Merged(allLinks, seenUrls)).seen
              /\ cidx' = cidx + 1
              /\ xpc' = "comments"
    ELSE /\ cidx' = cidx + 1
         /\ xpc' = "comments"
         /\ UNCHANGED <<allLinks, seenUrls>>

\* part_003:313-332: the issue has arrived, the description is walked
ExtractDescription ==
    /\ xpc = "description"
    /\ MergeBody(issue.description)
    /\ UNCHANGED <<doc, extracted, issue>>
    /\ ExtractUnchanged

\* part_003:335-351: one comment of the loop
ExtractComment ==
    /\ xpc = "comments"
    /\ cidx <= Len(issue.comments)
    /\ MergeBody(Prop(issue.comments[cidx], "body"))
    /\ UNCHANGED <<doc, extracted, issue>>
    /\ ExtractUnchanged

\* part_003:353-357: the payload is returned
ReturnLinks ==
    /\ xpc = "comments"
    /\ cidx > Len(issue.comments)
    /\ xpc' = "done"
    /\ UNCHANGED <<doc, extracted, issue, allLinks, seenUrls, cidx>>
    /\ ExtractUnchanged

(* --------------------------- comment window --------------------------- *)

\* part_003:459: the window when the variable is not set
DefaultCommentLimit == 5

MaxComments == 6

\* the values of DEPENDENCY_ANALYSIS_COMMENT_LIMIT explored; NotSet: undefined
NotSet == "undefined"
CommentEnvs == {NotSet, "", "0", "1", "2", "5"}

\* parseInt(s, 10) over the digit strings explored
parseInt(s) ==
    CASE s = "0" -> 0
      [] s = "1" -> 1
      [] s = "2" -> 2
      [] OTHER -> 5

\* part_003:459,520 (and 135): parseInt(process.env.... || "5", 10)
commentLimit(env) == IF env \in {NotSet, ""} THEN DefaultCommentLimit ELSE parseInt(env)

\* fields.comment.comments, oldest first, each comment as its place in the list
Comments(n) == [j \in 1..n |-> j]

\* Array.prototype.slice(start): a negative start counts from the end, and
\* -0 is 0, the start
Slice(s, start) ==
    LET from == IF start < 0
                THEN (IF Len(s) + start > 0 THEN Len(s) + start ELSE 0)
                ELSE (IF start < Len(s) THEN start ELSE Len(s))
    IN  SubSeq(s, from + 1, Len(s))

\* part_003:463,520: (comments || []).slice(-commentLimit)
LastComments(comments, n) == Slice(comments, 0 - n)

CommentIdle ==
    /\ commentEnv = NotSet
    /\ rawComments = [root |-> <<>>, node |-> <<>>]
    /\ recordComments = [root |-> <<>>, node |-> <<>>]
    /\ kpc = "idle"

CommentUnchanged ==
    UNCHANGED <<commentEnv, rawComments, traversalVars, clientVars, scoreVars, discoverVars,
                adfVars, extractVars, serverVars>>

\* part_003:459-471: the record of the root ticket is built
BuildMainComments ==
    /\ kpc = "main"
    /\ recordComments' = [recordComments EXCEPT
          !.root = LastComments(rawComments.root, commentLimit(commentEnv))]
    /\ kpc' = "traverse"
    /\ CommentUnchanged

\* part_003:517-536: the record of a graph node is built
BuildNodeComments ==
    /\ kpc = "traverse"
    /\ recordComments' = [recordComments EXCEPT
          !.node = LastComments(rawComments.node, commentLimit(commentEnv))]
    /\ kpc' = "built"
    /\ CommentUnchanged

(* ---------------------------- registerTools --------------------------- *)

\* one place where a handler calls the client:
\*   when   "always", "maybe" (an if or a loop that may have nothing to do) or
\*          "with previous" (under the condition of the place before it)
\*   needs  the place before it must have delivered a result that is not null
\*          for this one to be reached: its calls are made for what that
\*          result holds (keys, links, page ids, texts)
\*   caught a rejection is caught and the handler goes on
\*   loop   "none": the call is awaited once
\*   most   the largest number of awaits of the place, 0 if only data bound it
\*   unchecked  the handler reads a property of the result with no test for null
\*   tried  under the catch of the call, the handler reads the result in a way
\*          that throws on a value of another shape than it expects
\*   ahead  the places whose results the code ahead of this place, back to the
\*          place before it and outside every try, reads in such a way
Call(method, when, needs, caught) ==
    [method |-> method, when |-> when, needs |-> needs, caught |-> caught,
     loop |-> "none", most |-> 1, unchecked |-> FALSE, tried |-> FALSE, ahead |-> {}]

\* a call whose result the handler dereferences as it is (res.issues,
\* res.values, res.histories, page.title, created.key, list.transitions); the
\* other results are read through ?. or not at all
Unchecked(call) == [call EXCEPT !.unchecked = TRUE]

\* a call in a try whose block goes on to read the result: for (const link of
\* issuelinks) and link.outwardIssue (part_003:175-181, 558-562),
\* extractConfluenceLinks (625, 630), issue.key and components.map (719, 731,
\* 1304, 1320), for (const r of res.results) (751)
Tried(call) == [call EXCEPT !.tried = TRUE]

\* a call with code ahead of it that reads the results of the places given:
\* comments.slice and components.map of the main issue (part_003:463, 481,
\* 1228), e.type.toLowerCase (591), text.match (695), bodyHtml.replace (372),
\* list.transitions.find (1505)
Ahead(call, places) == [call EXCEPT !.ahead = places]

\* a call awaited in a loop:
\*   "each"            the try is inside the loop, which goes on after a rejection
\*   "until rejected"  the try is around the loop, which a rejection ends
\*   "from first"      the recursion of traverse: the calls after the first are
\*                     made for the links of a record that was fetched, the
\*                     try is inside traverse and a rejection ends one visit
Loop(call, kind, most) == [call EXCEPT !.loop = kind, !.most = most]

\* a handler: its places, and the places whose results the code after the
\* last place reads, up to the return, in a way that throws on a value of
\* another shape (p.id, h.id, bodyHtml.replace, extractConfluenceLinks,
\* res.results.map, text.match, n.status.toLowerCase)
Tool(name, calls, tail) == [name |-> name, calls |-> calls, tail |-> tail]

\* part_003:53-1525: the mcp.tool and mcp.registerTool statements of
\* registerTools in source order, each with the client calls of its handler
Registrations ==
    <<Tool("jira_list_issues",
           <<Unchecked(Call("searchIssues", "always", FALSE, FALSE))>>, {}),
      Tool("jira_list_projects",
           <<Unchecked(Call("listProjects", "always", FALSE, FALSE))>>, {1}),
      Tool("jira_get_issue", <<Call("getIssue", "always", FALSE, FALSE)>>, {}),
      Tool("jira_issue_relationships",
           <<Loop(Tried(Call("getIssue", "always", FALSE, TRUE)), "from first", 0)>>, {}),
      Tool("jira_get_changelog",
           <<Unchecked(Call("getIssueChangelog", "always", FALSE, FALSE))>>, {1}),
      Tool("confluence_get_page", <<Call("getConfluencePage", "always", FALSE, FALSE)>>, {1}),
      Tool("jira_issue_confluence_links", <<Call("getIssue", "always", FALSE, FALSE)>>, {1}),
      Tool("confluence_page_jira_links",
           <<Call("getConfluencePage", "always", FALSE, FALSE),
             Ahead(Loop(Call("getIssue", "maybe", TRUE, TRUE), "each", 0), {1})>>, {}),
      Tool("confluence_search_pages",
           <<Call("searchConfluencePages", "always", FALSE, FALSE)>>, {1}),
      Tool("jira_dependency_analysis",
           <<Call("getIssue", "always", FALSE, FALSE),
             Ahead(Loop(Tried(Call("getIssue", "always", FALSE, TRUE)), "from first", 0), {1}),
             Ahead(Loop(Call("getIssueChangelog", "maybe", TRUE, TRUE), "each", 0), {2}),
             Tried(Call("getIssue", "always", FALSE, TRUE)),
             Loop(Unchecked(Call("getConfluencePage", "maybe", TRUE, TRUE)), "each", 0),
             Ahead(Loop(Tried(Unchecked(Call("searchIssues", "maybe", FALSE, TRUE))),
                        "until rejected", DiscoveryTicketKeywords), {1}),
             Loop(Tried(Call("searchConfluencePages", "with previous", FALSE, TRUE)),
                  "until rejected", DiscoveryPageKeywords)>>, {1, 2}),
      Tool("jira_find_similar_tickets",
           <<Call("getIssue", "always", FALSE, FALSE),
             Ahead(Loop(Tried(Unchecked(Call("searchIssues", "maybe", TRUE, TRUE))), "each", 0),
                   {1})>>, {}),
      Tool("jira_create_issue",
           <<Unchecked(Call("createIssue", "maybe", FALSE, FALSE)),
             Call("getIssue", "with previous", FALSE, FALSE)>>, {}),
      Tool("jira_update_issue",
           <<Call("updateIssue", "maybe", FALSE, FALSE),
             Call("getIssue", "with previous", FALSE, FALSE)>>, {}),
      Tool("jira_add_comment", <<Call("addComment", "maybe", FALSE, FALSE)>>, {}),
      Tool("jira_list_projects",
           <<Unchecked(Call("listProjects", "always", FALSE, FALSE))>>, {1}),
      Tool("jira_list_transitions",
           <<Unchecked(Call("listTransitions", "always", FALSE, FALSE))>>, {1}),
      Tool("jira_transition_issue",
           <<Unchecked(Call("listTransitions", "maybe", FALSE, FALSE)),
             Ahead(Call("transitionIssue", "with previous", FALSE, FALSE), {1}),
             Call("getIssue", "with previous", FALSE, FALSE)>>, {})>>

ToolNames == {Registrations[j].name : j \in 1..Len(Registrations)}

\* part_003:1356-1358: the statements ahead of `return registeredNames`
StatementsAheadOfReturn == 11

RegisteredAll == Registrations

\* part_003:53-1358: the statements registerTools executes
Registered == SubSeq(Registrations, 1, StatementsAheadOfReturn)

MaxInvocations == 1

ServerIdle ==
    /\ registered = <<>>
    /\ invoked = <<>>
    /\ clientCalls = {}
    /\ running = <<>>
    /\ holds = <<>>
    /\ toolResult = <<>>

ServerUnchanged ==
    UNCHANGED <<traversalVars, clientVars, scoreVars, discoverVars, adfVars, extractVars,
                commentVars>>

\* part_003:53-1358: registerTools(mcp, config) runs when the server starts
RegisterTools ==
    /\ registered = <<>>
    /\ registered' = Registered
    /\ UNCHANGED <<invoked, clientCalls, running, holds, toolResult>>
    /\ ServerUnchanged

\* the handler registered under a name
HandlerOf(name) ==
    registered[CHOOSE j \in 1..Len(registered) : registered[j].name = name]

\* an await of a handler: the place, and how many awaits the place has had,
\* this one included (2 stands for every later one where only data bound the loop)
Await(at, nth) == [at |-> at, nth |-> nth]

\* the handler awaits nothing: it has returned, or it was never started
NoAwait == Await(0, 0)

\* the place is reached, given what the place before it delivered: "none"
\* (there is none), "skipped", "resolved", "null" (resolved with null, which
\* holds no links, keys or pages to go on with) or "rejected"
Reached(call, prev) ==
    /\ call.needs => prev = "resolved"
    /\ call.when = "with previous" => prev # "skipped"

\* the place is passed over, given what the place before it delivered
PassedOver(call, prev) ==
    \/ call.when = "maybe"
    \/ call.needs /\ prev # "resolved"
    \/ call.when = "with previous" /\ prev = "skipped"

\* where a handler that goes on to the place `at` can stop next: at a place
\* where it makes a call, or past its last place, where it returns
RECURSIVE NextCalls(_, _, _)
NextCalls(calls, at, prev) ==
    IF at > Len(calls) THEN {at}
    ELSE (IF Reached(calls[at], prev) THEN {at} ELSE {})
            \cup (IF PassedOver(calls[at], prev) THEN NextCalls(calls, at + 1, "skipped")
                  ELSE {})

\* the places of a handler whose results code outside their try reads
ReadLater(handler) ==
    handler.tail \cup UNION {handler.calls[l].ahead : l \in 1..Len(handler.calls)}

\* a handler that goes on to the place `at` comes, ahead of its next call or
\* its return, through code that reads a result it keeps and that throws on it
RECURSIVE ThrowsAhead(_, _, _, _)
ThrowsAhead(handler, at, prev, kept) ==
    IF at > Len(handler.calls) THEN handler.tail \cap kept # {}
    ELSE \/ handler.calls[at].ahead \cap kept # {}
         \/ /\ PassedOver(handler.calls[at], prev)
            /\ ThrowsAhead(handler, at + 1, "skipped", kept)

\* the loop of a place can make another call after its nth went `went`
Repeats(call, nth, went) ==
    /\ call.most = 0 \/ nth < call.most
    /\ CASE call.loop = "each" -> TRUE
         [] call.loop = "until rejected" -> went = "resolved"
         [] call.loop = "from first" -> nth > 1 \/ went = "resolved"
         [] OTHER -> FALSE

\* what a place delivers to the place after it when its nth call went
\* `went`: part_003:595-596 asks for the records traverse fetched, and a
\* call of traverse after the first shows that the first one resolved
Delivers(call, nth, went) ==
    IF call.loop = "from first" /\ nth > 1 THEN "resolved" ELSE went

\* the handler of request j rejects: the request fails
HandlerRejects(j) ==
    /\ running' = [running EXCEPT ![j] = NoAwait]
    /\ holds' = [holds EXCEPT ![j] = {}]
    /\ toolResult' = [toolResult EXCEPT ![j] = "error"]
    /\ UNCHANGED clientCalls

\* the handler of a request runs on after the call it awaited went `went`,
\* with the results of the places `kept` of a shape it does not expect: up
\* to its next await of a client call, to its return, or to a throw outside
\* every try
RunOn(j, name, await, went, kept) ==
    LET handler == HandlerOf(name)
        calls == handler.calls
        call == calls[await.at]
        prev == Delivers(call, await.nth, went)
    IN  \/ /\ Repeats(call, await.nth, went)
           /\ running' = [running EXCEPT
                 ![j] = Await(await.at, IF call.most = 0 THEN 2 ELSE await.nth + 1)]
           /\ holds' = [holds EXCEPT ![j] = kept]
           /\ UNCHANGED <<clientCalls, toolResult>>
        \/ \E n \in NextCalls(calls, await.at + 1, prev) :
              IF n > Len(calls)
              THEN /\ running' = [running EXCEPT ![j] = NoAwait]
                   /\ holds' = [holds EXCEPT ![j] = {}]
                   /\ toolResult' = [toolResult EXCEPT ![j] = "handled"]
                   /\ UNCHANGED clientCalls
              ELSE /\ running' = [running EXCEPT ![j] = Await(n, 1)]
                   /\ holds' = [holds EXCEPT ![j] = kept]
                   /\ clientCalls' = clientCalls \cup {calls[n].method}
                   /\ UNCHANGED toolResult
        \/ /\ ThrowsAhead(handler, await.at + 1, prev, kept)
           /\ HandlerRejects(j)

\* a tools/call request for a registered name: its handler starts and runs
\* up to its first client call
InvokeTool ==
    /\ registered # <<>>
    /\ Len(invoked) < MaxInvocations
    /\ \E name \in ToolNames :
          /\ \E j \in 1..Len(registered) : registered[j].name = name
          /\ invoked' = Append(invoked, name)
          /\ LET calls == HandlerOf(name).calls IN
             \E n \in NextCalls(calls, 1, "none") :
                 IF n > Len(calls)
                 THEN /\ running' = Append(running, NoAwait)
                      /\ toolResult' = Append(toolResult, "handled")
                      /\ UNCHANGED clientCalls
                 ELSE /\ running' = Append(running, Await(n, 1))
                      /\ toolResult' = Append(toolResult, "running")
                      /\ clientCalls' = clientCalls \cup {calls[n].method}
    /\ holds' = Append(holds, {})
    /\ UNCHANGED registered
    /\ ServerUnchanged

\* a tools/call request for a name that was not registered: no handler runs
InvokeUnknownTool ==
    /\ registered # <<>>
    /\ Len(invoked) < MaxInvocations
    /\ \E name \in ToolNames :
          /\ ~\E j \in 1..Len(registered) : registered[j].name = name
          /\ invoked' = Append(invoked, name)
    /\ running' = Append(running, NoAwait)
    /\ holds' = Append(holds, {})
    /\ toolResult' = Append(toolResult, "unknown tool")
    /\ UNCHANGED <<registered, clientCalls>>
    /\ ServerUnchanged

\* the handler of request j awaits a client call
Awaits(j) ==
    /\ j \in 1..Len(invoked)
    /\ toolResult[j] = "running"

\* what a client method can resolve with, as far as a handler tells: a value
\* of the shape the handler expects ("resolved"), null, or a value of another
\* shape ("malformed": a number for a string or an array, null for an
\* element). request() returns null for a 204 and else what the body holds
\* (client.ts:62-68); updateIssue and transitionIssue return nothing
\* (client.ts:162-164, 185-187); the body of a Confluence page is returned as
\* it is (client.ts:309-310); searchConfluencePages builds its result itself
\* around the results of the body (client.ts:349-352)
Resolutions(method) ==
    CASE method \in {"updateIssue", "transitionIssue"} -> {"resolved"}
      [] method = "searchConfluencePages" -> {"resolved", "malformed"}
      [] OTHER -> {"resolved", "null", "malformed"}

\* the handler of request j throws at the call it awaits: a catch of the
\* handler takes it and the handler runs on, or the handler rejects
HandlerThrows(j, kept) ==
    IF HandlerOf(invoked[j]).calls[running[j].at].caught
    THEN RunOn(j, invoked[j], running[j], "rejected", kept)
    ELSE HandlerRejects(j)

\* the call the handler of request j awaits resolves. With null the handler
\* runs on, or it reads a property of null and throws a TypeError. With a
\* value of another shape than it expects the handler runs on and keeps the
\* value if code outside the try reads it; the code under the catch of the
\* call that reads it throws at once or after a part of its work
CallResolves(j) ==
    /\ Awaits(j)
    /\ LET handler == HandlerOf(invoked[j])
           call == handler.calls[running[j].at]
       IN  \E value \in Resolutions(call.method) :
              CASE value = "null" ->
                      IF call.unchecked THEN HandlerThrows(j, holds[j])
                      ELSE RunOn(j, invoked[j], running[j], "null", holds[j])
                [] value = "malformed" ->
                      LET kept == holds[j] \cup ({running[j].at} \cap ReadLater(handler)) IN
                      \/ RunOn(j, invoked[j], running[j], "resolved", kept)
                      \/ /\ call.caught /\ call.tried
                         /\ RunOn(j, invoked[j], running[j], "rejected", kept)
                [] OTHER -> RunOn(j, invoked[j], running[j], "resolved", holds[j])
    /\ UNCHANGED <<registered, invoked>>
    /\ ServerUnchanged

\* the call the handler of request j awaits rejects
CallRejects(j) ==
    /\ Awaits(j)
    /\ HandlerThrows(j, holds[j])
    /\ UNCHANGED <<registered, invoked>>
    /\ ServerUnchanged

\* the helpers and handlers below while another part of the server is explored
OthersIdle == AdfIdle /\ ExtractIdle /\ CommentIdle /\ ServerIdle

(* --------------------------- specifications --------------------------- *)

\* the traversal state while another part of the server is explored
TraversalIdle ==
    /\ links = [k \in Keys |-> <<>>]
    /\ input = [i \in Invs |-> [issueKey |-> "A", depth |-> DepthMin]]
    /\ TraversalInit

Init == TraversalInit /\ ClientIdle /\ ScoreIdle /\ DiscoverIdle /\ OthersIdle

\* one tool invocation
Next == NextOf({1})

Spec == Init /\ [][Next]_vars

\* every pending fetch settles and every ready continuation runs
FairSpec == Spec /\ WF_vars(Step(1))

\* one tool invocation, and a jira_issue_relationships call made again
RerunNext == NextOf(Invs)

RerunSpec == Init /\ [][RerunNext]_vars

\* one call of a JiraClient method against an arbitrary server
ClientInit == TraversalIdle /\ ClientIdle /\ ScoreIdle /\ DiscoverIdle /\ OthersIdle

ClientNext ==
    \/ CallGetIssue \/ CallSearchIssues
    \/ CallGetConfluencePage \/ CallSearchConfluencePages
    \/ RequestAnswered \/ RequestRetryable \/ RequestCaught
    \/ ConfluenceFetch

ClientSpec == ClientInit /\ [][ClientNext]_vars

\* one jira_find_similar_tickets invocation
ScoreInit ==
    /\ TraversalIdle /\ ClientIdle /\ DiscoverIdle /\ OthersIdle
    /\ simInput \in SimilarInputs
    /\ spc = "idle"
    /\ searches = <<>>
    /\ sidx = 0
    /\ similarTicketsMap = <<>>
    /\ strategiesUsed = <<>>
    /\ matched = [k \in CandidateKeys |-> <<>>]
    /\ sortedTickets = <<>>

ScoreNext == BuildSearchList \/ SearchOk \/ SearchFail \/ SortAndLimit

ScoreSpec == ScoreInit /\ [][ScoreNext]_vars

\* step 5b of one jira_dependency_analysis invocation
DiscoverInit ==
    /\ TraversalIdle /\ ClientIdle /\ ScoreIdle /\ OthersIdle
    /\ ticket \in Tickets
    /\ autoDiscover \in BOOLEAN
    /\ dpc = "idle"
    /\ kwAt = 0
    /\ discovered = [similar |-> <<>>, pages |-> 0]
    /\ contextDiscovery = NoDiscovery

DiscoverNext ==
    \/ EnterDiscovery \/ DiscoverySkipped \/ DiscoveryWithoutKeywords
    \/ DiscoveryWithKeywords
    \/ SimilarSearchOk \/ SimilarSearchFail
    \/ ConfluenceSearchOk \/ ConfluenceSearchFail
    \/ BuildDiscovery

DiscoverSpec == DiscoverInit /\ [][DiscoverNext]_vars

\* stores of TargetGraphs in which the two roots reach each other, directly
\* or through a third record, or one links the other twice
ConcurrentGraphs ==
    {[k \in Keys |-> CASE k = "A" -> <<"B">> [] k = "B" -> <<"A">> [] OTHER -> <<>>],
     [k \in Keys |-> CASE k = "A" -> <<"B">> [] k = "B" -> <<"C">> [] k = "C" -> <<"A">>
                       [] OTHER -> <<>>],
     [k \in Keys |-> CASE k = "A" -> <<"B", "B">> [] k = "B" -> <<NoKey>> [] OTHER -> <<>>]}

\* the roots of the two concurrent analyses
RootOf(i) == IF i = 1 THEN "A" ELSE "B"

\* two jira_dependency_analysis invocations on different roots, in flight together
ConcurrentInit ==
    /\ ClientIdle /\ ScoreIdle /\ DiscoverIdle /\ OthersIdle
    /\ \E g \in ConcurrentGraphs \cap TargetGraphs :
          links = [k \in Keys |-> [j \in 1..Len(g[k]) |-> MkLink(k, g[k][j])]]
    /\ outcome = [k \in Keys |-> "unknown"]
    /\ mainOutcome = [k \in Keys |-> "unknown"]
    /\ clOutcome = [k \in Keys |-> "unknown"]
    /\ \E d \in [Invs -> {in.depth : in \in Inputs}] :
          input = [i \in Invs |-> [issueKey |-> RootOf(i), depth |-> d[i]]]
    /\ tool = [i \in Invs |-> "none"]
    /\ pc = [i \in Invs |-> "idle"]
    /\ nodes = [i \in Invs |-> <<>>]
    /\ edges = [i \in Invs |-> <<>>]
    /\ visited = [i \in Invs |-> {}]
    /\ visiting = [i \in Invs |-> {}]
    /\ circularDeps = [i \in Invs |-> <<>>]
    /\ stack = [i \in Invs |-> <<>>]
    /\ blockers = [i \in Invs |-> <<>>]
    /\ bidx = [i \in Invs |-> 0]
    /\ fetchCount = [i \in Invs |-> [k \in Keys |-> 0]]
    /\ insertCount = [i \in Invs |-> [k \in Keys |-> 0]]
    /\ backEdges = [i \in Invs |-> {}]

\* every handler step of either invocation, in any interleaving
ConcurrentNext == \E i \in Invs : InvokeAnalysis(i) \/ Step(i)

ConcurrentSpec == ConcurrentInit /\ [][ConcurrentNext]_vars

\* the parts of the server modelled above, all at rest
Elsewhere == TraversalIdle /\ ClientIdle /\ ScoreIdle /\ DiscoverIdle

\* toADF applied to a string, adfToPlainText applied to its result
AdfInit ==
    /\ Elsewhere /\ ExtractIdle /\ CommentIdle /\ ServerIdle
    /\ plain \in {Missing} \cup {Given(s) : s \in Strings}
    /\ adf = NoDoc
    /\ text = <<>>
    /\ apc = "plain"

AdfNext == CallToADF \/ CallAdfToPlainText

AdfSpec == AdfInit /\ [][AdfNext]_vars

\* extractConfluenceLinks applied to a document, and one
\* jira_issue_confluence_links invocation on an issue
ExtractInit ==
    /\ Elsewhere /\ AdfIdle /\ CommentIdle /\ ServerIdle
    /\ extracted = NoLinks
    /\ allLinks = <<>>
    /\ seenUrls = {}
    /\ \/ /\ xpc = "extract"
          /\ doc \in Docs
          /\ issue = [description |-> Undef, comments |-> <<>>]
          /\ cidx = 0
       \/ /\ xpc = "description"
          /\ doc = Undef
          /\ issue \in Issues
          /\ cidx = 0

ExtractNext ==
    \/ CallExtractConfluenceLinks
    \/ ExtractDescription \/ ExtractComment \/ ReturnLinks

ExtractSpec == ExtractInit /\ [][ExtractNext]_vars

\* the records of one jira_dependency_analysis invocation
CommentInit ==
    /\ Elsewhere /\ AdfIdle /\ ExtractIdle /\ ServerIdle
    /\ commentEnv \in CommentEnvs
    /\ rawComments \in [root : {Comments(n) : n \in 0..MaxComments},
                        node : {Comments(n) : n \in 0..MaxComments}]
    /\ recordComments = [root |-> <<>>, node |-> <<>>]
    /\ kpc = "main"

CommentNext == BuildMainComments \/ BuildNodeComments

CommentSpec == CommentInit /\ [][CommentNext]_vars

\* the server: registerTools, then tools/call requests
ServerInit == Elsewhere /\ OthersIdle

ServerNext ==
    \/ RegisterTools \/ InvokeTool \/ InvokeUnknownTool
    \/ \E j \in 1..MaxInvocations : CallResolves(j) \/ CallRejects(j)

ServerSpec == ServerInit /\ [][ServerNext]_vars

(* ------------------------- vocabulary of the claims ------------------- *)

NodeSet(i) == Range(nodes[i])

\* the top-level traverse call of invocation i has returned
Returned(i) == pc[i] \in {"blockers", "done"}

\* the keys a record's raw links name, read off the raw link fields
RawTargets(k) ==
    {t \in Keys : \E j \in 1..Len(links[k]) :
        links[k][j].outwardIssue = t \/ links[k][j].inwardIssue = t}

\* keys within n levels of r, r itself being level 1
RECURSIVE WithinLevels(_, _)
WithinLevels(r, n) ==
    IF n <= 1 THEN {r}
    ELSE LET p == WithinLevels(r, n - 1) IN p \cup UNION {RawTargets(k) : k \in p}

OnCycle(k) == \E t \in RawTargets(k) : k \in WithinLevels(t, Cardinality(Keys))

Acyclic == \A k \in Keys : ~OnCycle(k)

\* getIssue(k) was called by the traversal of invocation i and has settled with o
Settled(i, k, o) ==
    /\ fetchCount[i][k] > 0
    /\ outcome[k] = o
    /\ ~(InCall(i, "fetch") /\ Top(i).key = k)

AllFetchesOk == \A k \in Keys : outcome[k] \notin FailKinds

EdgesFrom(i, k) == SelectSeq(edges[i], LAMBDA e : e.from = k)

\* the edges a record's raw links call for, in link order
RawEdge(k, l) ==
    [from |-> k,
     to |-> IF l.outwardIssue # NoKey THEN l.outwardIssue ELSE l.inwardIssue,
     type |-> LET n == IF l.outwardIssue # NoKey THEN l.type.outward ELSE l.type.inward
              IN  IF n = "" THEN "relates to" ELSE n]

ExpectedEdges(k) ==
    LET ls == SelectSeq(links[k], LAMBDA l : l.outwardIssue # NoKey \/ l.inwardIssue # NoKey)
    IN  [j \in 1..Len(ls) |-> RawEdge(k, ls[j])]

NoDuplicates(s) == \A a, b \in 1..Len(s) : s[a] = s[b] => a = b

\* the store of the cycle scenario: A "is blocked by" B, B "blocks" A
CycleScenario(i) ==
    /\ links["A"] = <<[type |-> [inward |-> "is blocked by", outward |-> "blocks"],
                      outwardIssue |-> NoKey, inwardIssue |-> "B"]>>
    /\ links["B"] = <<[type |-> [inward |-> "is blocked by", outward |-> "blocks"],
                      outwardIssue |-> "A", inwardIssue |-> NoKey]>>
    /\ input[i] = [issueKey |-> "A", depth |-> 2]
    /\ tool[i] = "jira_dependency_analysis"
    /\ AllFetchesOk

(* ------------------------------ claims -------------------------------- *)

\* C1: over an acyclic store in which every fetch succeeds, the traversal ends
\* with nodes holding exactly the keys within input.depth levels of the root
\* (the root being level 1), whatever the order of the links.
C1_NodesAreTheReachableKeys ==
    \A i \in Invs :
        (Returned(i) /\ Acyclic /\ AllFetchesOk)
            => NodeSet(i) = WithinLevels(input[i].issueKey, input[i].depth)

\* C2: when the traversal ends, circular_deps holds one marker, once, for every
\* key that was the target of a link of a fetched record while it was in
\* visiting, and no other marker.
C2_OneMarkerPerBackEdge ==
    \A i \in Invs :
        Returned(i) =>
            /\ Range(circularDeps[i]) = {Marker(k) : k \in backEdges[i]}
            /\ NoDuplicates(circularDeps[i])

\* C3: over any store (cycles, self links, failing fetches) and any depth, the
\* top-level traverse call returns once every pending fetch settles.
C3_TraversalTerminates == (pc[1] = "traverse") ~> (pc[1] # "traverse")

C3_Witness ==
    \E i \in Invs :
        /\ Returned(i)
        /\ circularDeps[i] # <<>>
        /\ \E k \in Keys : Settled(i, k, "notfound")
        /\ \E k \in Keys : k \in RawTargets(k)

\* C4: in the cycle scenario (A "is blocked by" B, B "blocks" A, depth 2) the
\* analysis yields nodes {A,B}, the two edges in order, and the marker of A.
C4_CycleScenarioGraph ==
    \A i \in Invs :
        (CycleScenario(i) /\ Returned(i)) =>
            /\ NodeSet(i) = {"A", "B"}
            /\ edges[i] = <<[from |-> "A", to |-> "B", type |-> "is blocked by"],
                            [from |-> "B", to |-> "A", type |-> "blocks"]>>
            /\ circularDeps[i] = <<"A (circular dependency detected)">>

\* C5: in the cycle scenario, with every changelog fetched, the blockers of the
\* analysis of A are exactly [B]; the root A is no blocker of itself.
C5_CycleScenarioBlockers ==
    \A i \in Invs :
        (CycleScenario(i) /\ pc[i] = "done" /\ \A k \in Keys : clOutcome[k] # "failed")
            => blockers[i] = <<"B">>

\* C6: every fetched record contributes one edge per link that has a target
\* key, in link order, whether or not the target is traversed; at depth 1 only
\* the root is fetched and inserted, and the traversal raises no error.
C6_EdgePerLink ==
    \A i \in Invs :
        /\ Returned(i) => \A k \in NodeSet(i) : EdgesFrom(i, k) = ExpectedEdges(k)
        /\ (Returned(i) /\ input[i].depth = 1) =>
              /\ NodeSet(i) \subseteq {input[i].issueKey}
              /\ \A k \in Keys \ {input[i].issueKey} : fetchCount[i][k] = 0
        /\ pc[i] = "failed" => mainOutcome[input[i].issueKey] \in FailKinds

C6_Witness ==
    \E i \in Invs :
        /\ Returned(i)
        /\ input[i].depth = 1
        /\ NodeSet(i) = {"A"}
        /\ \E j \in 1..Len(edges[i]) : edges[i][j].from = "A" /\ edges[i][j].to = "B"
        /\ fetchCount[i]["B"] = 0

\* C7: a linked key whose fetch fails with NotFound is never in nodes, leaves
\* visiting and enters visited, keeps the edge that points to it, and the
\* traversal goes on through the remaining links of its parent and returns.
C7_NotFoundIsSkipped ==
    \A i \in Invs : \A k \in Keys \ {input[i].issueKey} :
        Settled(i, k, "notfound") =>
            /\ k \notin NodeSet(i)
            /\ insertCount[i][k] = 0
            /\ k \notin visiting[i]
            /\ k \in visited[i]
            /\ \E j \in 1..Len(edges[i]) : edges[i][j].to = k
            /\ pc[i] # "failed"
            /\ Returned(i) =>
                  \A p \in NodeSet(i) : k \in RawTargets(p) => EdgesFrom(i, p) = ExpectedEdges(p)

C7_Witness ==
    \E i \in Invs :
        /\ Returned(i)
        /\ Settled(i, "B", "notfound")
        /\ TargetKey(links["A"][1]) = "B"
        /\ Len(links["A"]) = 2 /\ TargetKey(links["A"][2]) = "C"
        /\ "C" \in NodeSet(i)

\* C8: an analysis in which the fetch of any record fails with an auth error
\* returns no result.
C8_AuthFailureAborts ==
    \A i \in Invs :
        (tool[i] = "jira_dependency_analysis" /\ pc[i] = "done")
            => ~\E k \in Keys : Settled(i, k, "auth")

\* C9: within one traversal every key is fetched at most once; a key of nodes
\* was fetched successfully once and inserted once, never overwritten.
C9_FetchedAndInsertedOnce ==
    \A i \in Invs :
        /\ NoDuplicates(nodes[i])
        /\ \A k \in Keys :
              /\ fetchCount[i][k] <= 1
              /\ insertCount[i][k] <= 1
              /\ k \in NodeSet(i) =>
                    (fetchCount[i][k] = 1 /\ insertCount[i][k] = 1 /\ outcome[k] = "ok")

C9_Witness ==
    \E i \in Invs :
        /\ Returned(i)
        /\ \E a, b \in 1..Len(edges[i]) :
              a # b /\ edges[i][a].to = edges[i][b].to /\ edges[i][a].to \in NodeSet(i)
        /\ \E j \in 1..Len(edges[i]) : edges[i][j].to \notin NodeSet(i)

\* C10: a second traversal from the same root with the same depth over the
\* unchanged store yields the same node set, edges and circular_deps.
C10_RerunIsIdentical ==
    (pc[1] = "done" /\ pc[2] = "done") =>
        /\ NodeSet(1) = NodeSet(2)
        /\ edges[1] = edges[2]
        /\ circularDeps[1] = circularDeps[2]

C10_Witness ==
    /\ pc[1] = "done" /\ pc[2] = "done"
    /\ Cardinality(NodeSet(2)) >= 2
    /\ circularDeps[2] # <<>>

(* ------------------ vocabulary of the client claims ------------------- *)

\* a 429 or 5xx response
Transient(res) == res.status = 429 \/ res.status \in 500..599

Is2xx(res) == res.status \in 200..299

AuthFailure(res) == res.status \in {401, 403}

\* the body of a 2xx response can be read (a 204 has none to read)
Readable(res) == res.status = 204 \/ res.body # "malformed"

\* what request() hands back for a 2xx response
ValueOf(res) == IF res.status = 204 THEN "null" ELSE res.body

\* the error request() makes of a response that is neither 2xx nor transient
ErrorOf(res) ==
    IF res = NetworkError THEN Err("fetch failed", 0)
    ELSE IF Is2xx(res) THEN Err("invalid json", res.status)
    ELSE Err("Jira API", res.status)

UnknownError == Err("Unknown Jira client error", 0)

\* the exchanges of searchIssues with its n-th endpoint
ExchangesOf(n) == SelectSeq(http, LAMBDA x : x.endpoint = SearchEndpoints[n])

Contacted(n) == ExchangesOf(n) # <<>>

LastOf(n) == ExchangesOf(n)[Len(ExchangesOf(n))].res

\* the request to the n-th endpoint is over
RequestOver(n) == Contacted(n) /\ (endpoint > n \/ cpc = "done")

\* the n-th endpoint answered with a response that request() parsed and returned
Answered(n) == RequestOver(n) /\ Is2xx(LastOf(n)) /\ Readable(LastOf(n))

\* the n-th endpoint answered with a result searchIssues accepts: an object
\* with an issues list, or whatever the legacy endpoint answered
Delivered(n) ==
    Answered(n) /\ (n = Len(SearchEndpoints) \/ LastOf(n).body = "issues")

EndpointsInOrder ==
    /\ http # <<>> => http[1].endpoint = SearchEndpoints[1]
    /\ \A j \in 1..Len(http) : \A l \in j..Len(http) :
          \E a \in 1..Len(SearchEndpoints) : \E b \in a..Len(SearchEndpoints) :
              http[j].endpoint = SearchEndpoints[a] /\ http[l].endpoint = SearchEndpoints[b]

\* the error the caller of searchIssues receives is one the legacy request made
LegacyError ==
    \/ result.err = UnknownError
    \/ \E j \in 1..Len(ExchangesOf(Len(SearchEndpoints))) :
          LET res == ExchangesOf(Len(SearchEndpoints))[j].res
          IN  ~Transient(res) /\ result.err = ErrorOf(res)

(* --------------------------- client claims ---------------------------- *)

\* C11 as stated: request() makes at most 3 HTTP attempts; a 429 or 5xx
\* response before the third attempt is followed by another attempt; after
\* three consecutive 429/5xx responses the call fails with an error; a 2xx
\* response at any attempt ends the call with that response.
C11_RequestContract ==
    cop.method = "getIssue" =>
        /\ Len(http) <= 3
        /\ \A j \in 1..Len(http) :
              /\ (Transient(http[j].res) /\ j < 3) => (cpc = "request" \/ Len(http) > j)
              /\ Is2xx(http[j].res) =>
                    (j = Len(http) /\ cpc = "done" /\ result = Value(ValueOf(http[j].res)))
        /\ (Len(http) = 3 /\ \A j \in 1..3 : Transient(http[j].res)) =>
              (cpc = "done" /\ result.kind = "error")

\* C11 amended: request() makes at most 3 HTTP attempts; a 429 or 5xx
\* response before the third attempt is followed by another attempt; after
\* three consecutive 429/5xx responses the call fails with an error; a 2xx
\* response whose body is read ends the call with that response, while a 2xx
\* response whose JSON body does not parse counts as a failed attempt and is
\* followed by another attempt under the same cap.
C11_RequestContractAmended ==
    cop.method = "getIssue" =>
        /\ Len(http) <= 3
        /\ \A j \in 1..Len(http) :
              /\ (Transient(http[j].res) /\ j < 3) => (cpc = "request" \/ Len(http) > j)
              /\ (Is2xx(http[j].res) /\ Readable(http[j].res)) =>
                    (j = Len(http) /\ cpc = "done" /\ result = Value(ValueOf(http[j].res)))
              /\ (Is2xx(http[j].res) /\ ~Readable(http[j].res) /\ j < 3) =>
                    (cpc = "request" \/ Len(http) > j)
        /\ (Len(http) = 3 /\ \A j \in 1..3 : Transient(http[j].res)) =>
              (cpc = "done" /\ result.kind = "error")

C11_Witness ==
    /\ cop.method = "getIssue"
    /\ cpc = "done"
    /\ Len(http) = 3
    /\ \A j \in 1..3 : Transient(http[j].res)
    /\ result.kind = "error"

\* C12 as stated: a 401 or 403 is never retried: when the first response to
\* request() is 401/403 the call fails after exactly one HTTP attempt, and a
\* search whose primary endpoint answers 401/403 contacts no fallback endpoint.
C12_AuthNeverRetried ==
    /\ (cop.method = "getIssue" /\ http # <<>> /\ AuthFailure(http[1].res)) =>
          (Len(http) = 1 /\ cpc = "done" /\ result.kind = "error")
    /\ (cop.method = "searchIssues"
            /\ \E j \in 1..Len(ExchangesOf(1)) : AuthFailure(ExchangesOf(1)[j].res)) =>
          (~Contacted(2) /\ ~Contacted(3))

\* C13 as stated: searchIssues contacts primary, alternate, legacy in that
\* order; a later endpoint is contacted only after every earlier one failed;
\* the value returned is the response of the first endpoint that answered
\* with a successfully parsed result; if all three fail the caller receives
\* the error of the legacy request.
C13_FallbackChain ==
    cop.method = "searchIssues" =>
        /\ EndpointsInOrder
        /\ \A n \in 2..Len(SearchEndpoints) :
              Contacted(n) => \A m \in 1..(n - 1) : RequestOver(m) /\ ~Answered(m)
        /\ (cpc = "done" /\ result.kind = "value") =>
              \E n \in 1..Len(SearchEndpoints) :
                  /\ Answered(n)
                  /\ \A m \in 1..(n - 1) : ~Answered(m)
                  /\ result = Value(ValueOf(LastOf(n)))
        /\ (cpc = "done" /\ \A n \in 1..Len(SearchEndpoints) : ~Answered(n)) =>
              (result.kind = "error" /\ LegacyError)

\* C13 amended: searchIssues contacts primary, alternate, legacy in that
\* order; a later endpoint is contacted only after every earlier request
\* threw or returned something without an issues list; the value returned is
\* the response of the first of primary and alternate that carries an issues
\* list, else whatever the legacy endpoint returned; the call throws only
\* after all three were contacted, and then with the error of the legacy request.
C13_FallbackChainAmended ==
    cop.method = "searchIssues" =>
        /\ EndpointsInOrder
        /\ \A n \in 2..Len(SearchEndpoints) :
              Contacted(n) => \A m \in 1..(n - 1) : RequestOver(m) /\ ~Delivered(m)
        /\ (cpc = "done" /\ result.kind = "value") =>
              \E n \in 1..Len(SearchEndpoints) :
                  /\ Delivered(n)
                  /\ \A m \in 1..(n - 1) : ~Delivered(m)
                  /\ result = Value(ValueOf(LastOf(n)))
        /\ (cpc = "done" /\ result.kind = "error") =>
              (Contacted(Len(SearchEndpoints)) /\ LegacyError)
        /\ (cpc = "done" /\ \A n \in 1..Len(SearchEndpoints) : ~Delivered(n)) =>
              result.kind = "error"

C13_Witness ==
    /\ cop.method = "searchIssues"
    /\ cpc = "done"
    /\ LastOf(1) = Res(200, "other")
    /\ Contacted(2)
    /\ ~Contacted(3)
    /\ result = Value("issues")

\* C14 as stated: the field projection getIssue and searchIssues send is the
\* fixed minimum field set when the caller supplies no field set, and
\* MIN_FIELDS united with F, each name once and nothing else, when the
\* caller supplies the names F.
C14_FieldProjection ==
    cop.method \in {"getIssue", "searchIssues"} =>
        /\ cop.fields = Undefined => qpFields = Join(MIN_FIELDS)
        /\ cop.fields.type = "array" =>
              LET s == ArrayFromSet(MIN_FIELDS \o cop.fields.items)
              IN  /\ qpFields = Join(s)
                  /\ NoDuplicates(s)
                  /\ Range(s) = Range(MIN_FIELDS) \cup Range(cop.fields.items)

\* C15 as stated: a 429 or 5xx response to getConfluencePage or
\* searchConfluencePages is followed by another attempt, up to 3 attempts,
\* before the operation fails.
C15_ConfluenceRetries ==
    (cop.method \in {"getConfluencePage", "searchConfluencePages"} /\ cpc = "done") =>
        \A j \in 1..Len(http) : (Transient(http[j].res) /\ j < 3) => Len(http) > j

(* ---------------- vocabulary of the similar-ticket claims ------------- *)

\* the Numbers the spec writes as 0.3, 0.4, 0.6, 0.7, 0.9 and 1.0
Stated03 == Number(80530636, 214748364)
Stated04 == Number(107374182, 107374184)
Stated06 == Number(161061273, 161061272)
Stated07 == Number(187904819, 53687088)
Stated09 == Number(241591910, 107374184)
Stated10 == Number(Word, 0)

\* the strategy weights the spec names
ClaimWeights == {Stated04, Stated06, Stated07, Stated09}

\* min(1.0, score + 0.3 * w)
StatedBoost(score, w) ==
    LET s == Plus(score, Times(Stated03, w))
    IN  IF Less(Stated10, s) THEN Stated10 ELSE s

\* the score the spec gives a candidate matched by the weights ws, in order
RECURSIVE ExpectedScore(_)
ExpectedScore(ws) ==
    IF Len(ws) = 1 THEN ws[1]
    ELSE StatedBoost(ExpectedScore(SubSeq(ws, 1, Len(ws) - 1)), ws[Len(ws)])

Candidates == Range(similarTicketsMap)

(* ----------------------- similar-ticket claims ------------------------ *)

\* C16: a candidate returned by strategies of weights w1, ..., wn, in that
\* order, scores w1 after the first match and min(1.0, score + 0.3 * wi) after
\* each later one: w for one match, min(1.0, w1 + 0.3 * w2) for two, and always
\* within (0, 1].
C16_ScoreFormula ==
    /\ \A c \in Candidates :
          LET ws == matched[c.key] IN
          /\ ws # <<>>
          /\ \A j \in 1..Len(ws) : ws[j] \in ClaimWeights
          /\ c.confidenceScore = ExpectedScore(ws)
          /\ Len(ws) = 1 => c.confidenceScore = ws[1]
          /\ Len(ws) = 2 => c.confidenceScore = StatedBoost(ws[1], ws[2])
          /\ Less(Number(0, 0), c.confidenceScore)
          /\ ~Less(Stated10, c.confidenceScore)
    /\ \A k \in CandidateKeys : matched[k] # <<>> => \E c \in Candidates : c.key = k
    /\ Range(sortedTickets) \subseteq Candidates

C16_Witness ==
    /\ spc = "done"
    /\ \E a, b \in Candidates :
          /\ Len(matched[a.key]) = 2 /\ Less(a.confidenceScore, Stated10)
          /\ Len(matched[b.key]) >= 3 /\ b.confidenceScore = Stated10

\* C17 as stated: of two candidates of one search, one matched by two or more
\* strategies and one by exactly one, the multiply matched one has a final
\* confidenceScore at least that of the singly matched one.
C17_CorroboratedRanksHigher ==
    \A a, b \in Candidates :
        (Len(matched[a.key]) >= 2 /\ Len(matched[b.key]) = 1) =>
            ~Less(a.confidenceScore, b.confidenceScore)

\* C17 amended: a further match only raises a score: a candidate matched by
\* two or more strategies scores more than the weight of the first strategy
\* that matched it, hence more than any singly matched candidate whose
\* strategy weighs no more than that first one; the final list is in
\* descending score order.
C17_CorroborationOnlyRaises ==
    /\ \A a \in Candidates :
          Len(matched[a.key]) >= 2 =>
              /\ Less(matched[a.key][1], a.confidenceScore)
              /\ \A b \in Candidates :
                    (Len(matched[b.key]) = 1 /\ ~Less(matched[a.key][1], matched[b.key][1])) =>
                        Less(b.confidenceScore, a.confidenceScore)
    /\ \A j \in 1..Len(sortedTickets) : \A l \in j..Len(sortedTickets) :
          ~Less(sortedTickets[j].confidenceScore, sortedTickets[l].confidenceScore)

C17_Witness ==
    /\ spc = "done"
    /\ Len(sortedTickets) = 2
    /\ Len(matched[sortedTickets[1].key]) >= 2
    /\ Len(matched[sortedTickets[2].key]) = 1
    /\ matched[sortedTickets[2].key][1] = matched[sortedTickets[1].key][1]

(* ------------------------ auto-discover claim ------------------------- *)

\* sparse as the spec words it
SparseAsStated(t) ==
    \/ Len(t.components) = 0
    \/ Len(t.labels) = 0
    \/ ~t.description.present
    \/ t.description.length < 50

\* C18: the root is classified sparse exactly when it has no components, or
\* no labels, or a description that is missing or shorter than 50 characters;
\* with autoDiscover on, the result has the similar-records section exactly
\* when the root is sparse; with autoDiscover off it never has it.
C18_SparseDiscovery ==
    /\ IsSparseTicket(ticket) <=> SparseAsStated(ticket)
    /\ dpc = "done" =>
          (contextDiscovery.present <=> (autoDiscover /\ SparseAsStated(ticket)))
    /\ dpc # "done" => ~contextDiscovery.present
    /\ contextDiscovery.present => contextDiscovery.is_sparse_ticket

C18_Witness ==
    /\ dpc = "done"
    /\ autoDiscover
    /\ Len(ticket.components) > 0
    /\ ticket.description.present /\ ticket.description.length >= 50
    /\ Len(ticket.labels) = 0
    /\ contextDiscovery.present

(* ---------------------- blocker and insight claims -------------------- *)

\* a label that contains "block", whatever its case
BlockingLabel(type) == type \in {"blocks", "is blocked by", "Blocks", "Is Blocked By"}

AnalysisDone(i) == pc[i] = "done" /\ tool[i] = "jira_dependency_analysis"

\* C19 as stated: after a dependency analysis, blockers has an entry for the
\* target of every edge whose label contains "block" (in any case) and whose
\* target is in nodes, and for no other key; the graph alone decides it.
C19_BlockersFollowGraph ==
    \A i \in Invs :
        AnalysisDone(i) =>
            Range(blockers[i]) =
                {edges[i][j].to : j \in {x \in 1..Len(edges[i]) :
                    BlockingLabel(edges[i][x].type) /\ edges[i][x].to \in NodeSet(i)}}

\* C20 as stated: insights.blocking_chain_length is 1 exactly when some edge
\* leaving the root has a blocking label, and 0 otherwise, so it is 0 when
\* the root's only edges are "relates to" edges.
C20_BlockingChainFlag ==
    \A i \in Invs :
        AnalysisDone(i) =>
            /\ blocking_chain_length(i) \in {0, 1}
            /\ blocking_chain_length(i) = 1 <=>
                  \E j \in 1..Len(edges[i]) :
                      edges[i][j].from = input[i].issueKey /\ BlockingLabel(edges[i][j].type)

(* --------------------- traversal bookkeeping claim -------------------- *)

\* the keys of the traverse() calls that have passed visiting.add and have
\* not yet reached visiting.delete: the active recursion path
ActivePath(i) ==
    {stack[i][j].key : j \in {x \in 1..Len(stack[i]) : stack[i][x].phase \in {"fetch", "links"}}}

\* the traversal of invocation i waits for getIssue
Suspended(i) == pc[i] = "traverse" /\ stack[i] # <<>> /\ Top(i).phase = "fetch"

\* the keys the traversal of invocation i has asked getIssue for
Fetched(i) == {k \in Keys : fetchCount[i][k] > 0}

\* C27: while a traversal runs, and so at each of its suspension points,
\* visiting is exactly the set of keys on the active recursion path, visited
\* and visiting are disjoint, every key of nodes is in visited or visiting,
\* and no traverse call has a depth above maxDepth; once the traversal has
\* returned, visiting is empty and every fetched key, whether its fetch
\* succeeded or failed, is in visited.
C27_VisitingIsTheActivePath ==
    \A i \in Invs :
        /\ pc[i] = "traverse" =>
              /\ visiting[i] = ActivePath(i)
              /\ visited[i] \cap visiting[i] = {}
              /\ NodeSet(i) \subseteq (visited[i] \cup visiting[i])
              /\ \A j \in 1..Len(stack[i]) : stack[i][j].depth <= input[i].depth
        /\ Returned(i) =>
              /\ visiting[i] = {}
              /\ Fetched(i) \subseteq visited[i]

C27_Witness ==
    \E i \in Invs :
        /\ Suspended(i)
        /\ Len(stack[i]) >= 2
        /\ Top(i).depth = input[i].depth
        /\ visited[i] # {}
        /\ \E k \in visited[i] : outcome[k] \in FailKinds

(* ------------------------ surfaced error claim ------------------------ *)

\* what the description of an attempt's outcome has to name: the status of a
\* 429/5xx response, or the error made of any other failure
Describes(e, res) ==
    IF Transient(res) THEN e.status = res.status /\ e # UnknownError
    ELSE e = ErrorOf(res)

\* C28 as stated: when request() fails after its last attempt, the error it
\* surfaces describes the outcome of that final attempt, the last 429/5xx
\* status or the last network or HTTP error, whatever the earlier attempts
\* were; it is never the error of an earlier attempt nor an error without the
\* cause of the failure.
C28_ErrorOfFinalAttempt ==
    (cop.method = "getIssue" /\ cpc = "done" /\ result.kind = "error"
        /\ Len(http) = maxAttempts) =>
        Describes(result.err, http[Len(http)].res)

(* ------------------------- score order claim -------------------------- *)

\* the score of a candidate that the strategies of weights ws match in that
\* order, by the handler's own insert-or-boost step
RECURSIVE Replay(_)
Replay(ws) ==
    IF ws = <<>> THEN <<>>
    ELSE Upsert(Replay(SubSeq(ws, 1, Len(ws) - 1)), "X", Search("replayed", ws[Len(ws)]))

ScoreInOrder(ws) == Replay(ws)[1].confidenceScore

Swapped(ws) == <<ws[2], ws[1]>>

\* the place of a weight's category in the searches array
CategoryRank(w) ==
    CASE w = KeywordWeight -> 1
      [] w = ComponentWeight -> 2
      [] w = LabelWeight -> 3
      [] OTHER -> 4

\* C29 as stated: the score of a candidate depends on which strategies
\* returned it and not on their order: a candidate matched by w1 then w2 has
\* the score it would have were it matched by w2 then w1.
C29_OrderIndependent ==
    \A c \in Candidates :
        Len(matched[c.key]) = 2 =>
            c.confidenceScore = ScoreInOrder(Swapped(matched[c.key]))

\* C29 amended: the first strategy that matches a candidate counts in full
\* and each later one for three tenths, so the order matters: a candidate
\* matched by w1 then w2 has the score of the swapped order only when
\* w1 = w2 or both orders reach the cap of 1.0. The handler runs its
\* strategies in one fixed order (keywords, components, labels, assignee), and
\* in that order the strategies that matched a candidate decide its score.
C29_OrderFixedByCategory ==
    \A c \in Candidates :
        LET ws == matched[c.key] IN
        /\ \A j \in 1..Len(ws) : \A l \in j..Len(ws) :
              CategoryRank(ws[j]) <= CategoryRank(ws[l])
        /\ c.confidenceScore = ScoreInOrder(ws)
        /\ Len(ws) = 2 =>
              (c.confidenceScore = ScoreInOrder(Swapped(ws))
                  <=> (ws[1] = ws[2]
                        \/ (c.confidenceScore = FullScore
                              /\ ScoreInOrder(Swapped(ws)) = FullScore)))

C29_Witness ==
    /\ spc = "done"
    /\ \E a, b \in Candidates :
          /\ Len(matched[a.key]) = 2 /\ matched[a.key][1] # matched[a.key][2]
          /\ Len(matched[b.key]) = 2 /\ matched[b.key][1] = matched[b.key][2]

(* ---------------------- total_dependencies claim ---------------------- *)

\* C30 as stated: in every result of a dependency analysis,
\* insights.total_dependencies is a non-negative integer equal to the number
\* of graph nodes other than the root, whatever the fetches after the initial
\* root fetch did, the traversal's own fetch of the root failing included.
C30_TotalDependencies ==
    \A i \in Invs :
        AnalysisDone(i) =>
            /\ total_dependencies(i) >= 0
            /\ total_dependencies(i) = Cardinality(NodeSet(i) \ {input[i].issueKey})

(* ----------------------- confluence link claims ----------------------- *)

Urls(ls) == [j \in 1..Len(ls) |-> ls[j].url]

\* C21: the list extractConfluenceLinks returns holds no two references with
\* the same URL, whichever of its four rules (inline card, embedded page,
\* macro, link mark) emitted them, and the list the handler merges from the
\* description and the comment bodies of an issue has pairwise distinct URLs.
C21_DistinctUrls ==
    /\ xpc = "extracted" => NoDuplicates(Urls(extracted.links))
    /\ NoDuplicates(Urls(allLinks))
    /\ Range(Urls(allLinks)) = seenUrls

C21_Witness ==
    /\ xpc = "done"
    /\ issue.description =
          Doc(<<InlineCard(S(ViewUrl("1"))), TextNode(<<LinkMark(S(ViewUrl("1")))>>)>>)
    /\ \E j \in 1..Len(issue.comments) :
          issue.comments[j].body = Doc(<<Extension("confluence-content", S("1"))>>)
    /\ \E j \in 1..Len(issue.comments) :
          issue.comments[j].body =
              Doc(<<ConfluencePage(S("1"), Undef), Paragraph(<<InlineCard(S(SpaceUrl))>>)>>)
    /\ Urls(allLinks) = <<S(ViewUrl("1")), S(SpaceUrl)>>

\* C22 as stated: extractConfluenceLinks throws for no input tree: a node of
\* an unknown type, attrs that are missing or not an object, a url or href
\* that is not a string, a null or non-object entry of content or marks add
\* no reference and do not end the walk.
C22_NeverThrows ==
    xpc = "extracted" =>
        /\ extracted.kind = "links"
        /\ \A j \in 1..Len(extracted.links) : extracted.links[j].url.k = "string"

(* ------------------------ comment window claim ------------------------ *)

\* the window the variable configures
Window == commentLimit(commentEnv)

\* the last n of the comments, in their order
MostRecent(comments, n) ==
    SubSeq(comments, (IF Len(comments) > n THEN Len(comments) - n ELSE 0) + 1, Len(comments))

\* C25 as stated: every record an analysis builds, the root ticket and each
\* graph node, carries at most N comments, N being the configured window
\* (5 by default), and they are the N most recent ones in their original
\* order, for every configured window.
C25_CommentWindow ==
    /\ kpc \in {"traverse", "built"} =>
          /\ Len(recordComments.root) <= Window
          /\ recordComments.root = MostRecent(rawComments.root, Window)
    /\ kpc = "built" =>
          /\ Len(recordComments.node) <= Window
          /\ recordComments.node = MostRecent(rawComments.node, Window)

(* ------------------------- ADF round trip claim ----------------------- *)

\* C26: adfToPlainText(toADF(s)) = s for every plain string s, and the round
\* trip of a missing or empty argument is "".
C26_RoundTrip ==
    apc = "text" =>
        /\ plain.k = "string" => text = plain.s
        /\ (plain = Missing \/ plain = Given(<<>>)) => text = <<>>

C26_Witness ==
    /\ apc = "text"
    /\ plain.k = "string"
    /\ Len(plain.s) = MaxLen
    /\ \E j \in 2..(Len(plain.s) - 1) : plain.s[j] = "\n"
    /\ text # <<>>

(* -------------------------- read-only claim --------------------------- *)

\* client.ts:157-187: the JiraClient methods that change an issue
MutatingMethods == {"createIssue", "updateIssue", "addComment", "transitionIssue"}

WriteTools ==
    {"jira_create_issue", "jira_update_issue", "jira_add_comment", "jira_transition_issue"}

RegisteredNames == {registered[j].name : j \in 1..Len(registered)}

AloneState == [nodes |-> <<>>, edges |-> <<>>, visited |-> {}, visiting |-> {},
               circularDeps |-> <<>>]

\* traverse(k, d) of a traversal that runs alone against the store, with the
\* fetch outcomes the store has given
RECURSIVE AloneTraverse(_, _, _, _)
RECURSIVE AloneLinks(_, _, _, _, _)
AloneTraverse(k, d, depth, w) ==
    IF d > depth \/ k \in w.visited THEN w
    ELSE IF k \in w.visiting
    THEN [w EXCEPT !.circularDeps = IF Marker(k) \in Range(@) THEN @ ELSE Append(@, Marker(k))]
    ELSE IF outcome[k] \in FailKinds THEN [w EXCEPT !.visited = @ \cup {k}]
    ELSE LET w1 == [w EXCEPT !.visiting = @ \cup {k},
                             !.nodes = IF k \in Range(@) THEN @ ELSE Append(@, k)]
             w2 == AloneLinks(k, 1, d, depth, w1)
         IN  [w2 EXCEPT !.visiting = @ \ {k}, !.visited = @ \cup {k}]

AloneLinks(k, j, d, depth, w) ==
    IF j > Len(links[k]) THEN w
    ELSE LET l == links[k][j] IN
         IF TargetKey(l) = NoKey \/ LinkType(l) = "" THEN AloneLinks(k, j + 1, d, depth, w)
         ELSE LET w1 == [w EXCEPT !.edges =
                            Append(@, [from |-> k, to |-> TargetKey(l), type |-> LinkType(l)])]
                  w2 == IF d < depth THEN AloneTraverse(TargetKey(l), d + 1, depth, w1) ELSE w1
              IN  AloneLinks(k, j + 1, d, depth, w2)

\* the graph invocation i returns when no other invocation runs
Alone(i) == AloneTraverse(input[i].issueKey, 1, input[i].depth, AloneState)

\* C24: two analyses that run concurrently on different roots, interleaved at
\* every step, do not see each other's nodes, edges, visited, visiting or
\* circularDeps: the keys in the visited and visiting sets of an analysis are
\* the keys it fetched itself, and each analysis returns the graph it returns
\* when it runs alone against the same store.
C24_AnalysesAreIsolated ==
    \A i \in Invs :
        /\ pc[i] = "traverse" => (visited[i] \cup visiting[i]) = Fetched(i)
        /\ Returned(i) =>
              /\ nodes[i] = Alone(i).nodes
              /\ edges[i] = Alone(i).edges
              /\ circularDeps[i] = Alone(i).circularDeps
              /\ visited[i] = Alone(i).visited

C24_Witness ==
    /\ input[1].issueKey # input[2].issueKey
    /\ Suspended(1) /\ Suspended(2)
    /\ Top(1).key = input[2].issueKey
    /\ Top(2).key = input[1].issueKey
    /\ nodes[1] # <<>> /\ nodes[2] # <<>>

====
